---------------------------- MODULE Spec2Model ----------------------------
(***************************************************************************)
(* A model of ch8asm, an assembler for the CHIP-8 architecture.            *)
(*                                                                         *)
(* Text is modelled as a sequence of one-character strings, so that the    *)
(* tokenising, trimming, number parsing and number formatting of the       *)
(* source are computed character by character as the source computes      *)
(* them.  A Result is a record: Ok(v), Err(e), or Panic for a Rust panic   *)
(* (expect / panic! / slice out of range), which aborts the program.       *)
(***************************************************************************)
EXTENDS Integers, Sequences, FiniteSets, TLC

VARIABLES
    mnemonic,     \* encoder input: the first token of the line as spelled
    operands,     \* encoder input: the operand tokens, each with its meaning
    inst,         \* the text of the line handed to assemble_instruction
    opcode,       \* the Result of assemble_instruction, or Pending
    unprocessed,  \* preprocess input: the source text, as its list of lines
    lines,        \* preprocess: the current Vec<PreprocessedInstruction>
    prev_lines,   \* the line list the most recent pass received
    pc,           \* preprocess: the pass that runs next
    result,       \* the Result of preprocess, or Pending
    alias_map,    \* the alias table built by evaluate_aliases
    label_map     \* the label table built by evaluate_labels

asm_vars == <<mnemonic, operands, inst, opcode>>
pre_vars == <<unprocessed, lines, prev_lines, pc, result, alias_map, label_map>>
vars == <<mnemonic, operands, inst, opcode,
          unprocessed, lines, prev_lines, pc, result, alias_map, label_map>>

---------------------------------------------------------------------------
(* Results *)

Ok(v) == [kind |-> "Ok", err |-> "", val |-> v]
Err(e) == [kind |-> "Err", err |-> e, val |-> 0]
Panic == [kind |-> "Panic", err |-> "", val |-> 0]
Pending == [kind |-> "Pending", err |-> "", val |-> 0]

---------------------------------------------------------------------------
(* Text primitives of the Rust standard library, as the source uses them *)

IsWhitespace(c) == c \in {" ", "\t"}

RECURSIVE SplitFrom(_, _, _)
SplitFrom(s, cur, acc) ==
    IF s = <<>> THEN (IF cur = <<>> THEN acc ELSE Append(acc, cur))
    ELSE IF IsWhitespace(Head(s))
         THEN SplitFrom(Tail(s), <<>>, IF cur = <<>> THEN acc ELSE Append(acc, cur))
         ELSE SplitFrom(Tail(s), Append(cur, Head(s)), acc)

split_whitespace(s) == SplitFrom(s, <<>>, <<>>)

RECURSIVE trim_end_matches(_, _)
trim_end_matches(s, c) ==
    IF s # <<>> /\ s[Len(s)] = c
    THEN trim_end_matches(SubSeq(s, 1, Len(s) - 1), c)
    ELSE s

RECURSIVE trim_start(_)
trim_start(s) ==
    IF s # <<>> /\ IsWhitespace(Head(s)) THEN trim_start(Tail(s)) ELSE s

RECURSIVE trim_end(_)
trim_end(s) ==
    IF s # <<>> /\ IsWhitespace(s[Len(s)])
    THEN trim_end(SubSeq(s, 1, Len(s) - 1))
    ELSE s

trim(s) == trim_end(trim_start(s))

starts_with(s, p) == Len(s) >= Len(p) /\ SubSeq(s, 1, Len(p)) = p

ends_with(s, p) == Len(s) >= Len(p) /\ SubSeq(s, Len(s) - Len(p) + 1, Len(s)) = p

\* str::find(char): the 0-based index of the first occurrence, or -1 for None
find(s, c) ==
    IF \E i \in 1..Len(s) : s[i] = c
    THEN (CHOOSE i \in 1..Len(s) : s[i] = c /\ \A j \in 1..(i - 1) : s[j] # c) - 1
    ELSE -1

RECURSIVE join(_, _)
join(toks, sep) ==
    IF toks = <<>> THEN <<>>
    ELSE IF Len(toks) = 1 THEN toks[1]
    ELSE toks[1] \o sep \o join(Tail(toks), sep)

LowerDigits == <<"0", "1", "2", "3", "4", "5", "6", "7", "8", "9", "a", "b", "c", "d", "e", "f">>
UpperDigits == <<"0", "1", "2", "3", "4", "5", "6", "7", "8", "9", "A", "B", "C", "D", "E", "F">>

\* char::to_digit(radix): the digit's value, or -1
to_digit(c, radix) ==
    IF \E i \in 1..radix : LowerDigits[i] = c \/ UpperDigits[i] = c
    THEN (CHOOSE i \in 1..radix : LowerDigits[i] = c \/ UpperDigits[i] = c) - 1
    ELSE -1

RECURSIVE AccumulateDigits(_, _, _, _)
AccumulateDigits(s, radix, max, acc) ==
    IF s = <<>> THEN acc
    ELSE LET d == to_digit(Head(s), radix) IN
         IF d < 0 THEN -1
         ELSE IF acc * radix + d > max THEN -1
         ELSE AccumulateDigits(Tail(s), radix, max, acc * radix + d)

\* uN::from_str_radix for an unsigned type of maximum max: the value, or -1
\* for a ParseIntError (empty, a lone sign, an invalid digit, overflow).
\* A leading '+' is accepted; '-' is an invalid digit for unsigned types.
from_str_radix(s, radix, max) ==
    IF s = <<>> THEN -1
    ELSE LET digits == IF Head(s) = "+" THEN Tail(s) ELSE s IN
         IF digits = <<>> THEN -1
         ELSE AccumulateDigits(digits, radix, max, 0)

RECURSIVE FormatRadix(_, _, _)
FormatRadix(n, radix, digits) ==
    IF n < radix THEN <<digits[n + 1]>>
    ELSE Append(FormatRadix(n \div radix, radix, digits), digits[(n % radix) + 1])

\* usize::to_string
to_string(n) == FormatRadix(n, 10, LowerDigits)
\* format!("0x{:x}", n)
format_lower_hex(n) == <<"0", "x">> \o FormatRadix(n, 16, LowerDigits)
\* format!("{n:#X}")
format_alt_upper_hex(n) == <<"0", "x">> \o FormatRadix(n, 16, UpperDigits)

LowerLetters == <<"a", "b", "c", "d", "e", "f", "g", "h", "i", "j", "k", "l", "m", "n", "o", "p", "q", "r", "s", "t", "u", "v", "w", "x", "y", "z">>
UpperLetters == <<"A", "B", "C", "D", "E", "F", "G", "H", "I", "J", "K", "L", "M", "N", "O", "P", "Q", "R", "S", "T", "U", "V", "W", "X", "Y", "Z">>

U16Max == 65535
U8Max == 255

---------------------------------------------------------------------------
(* src/assemble/parse.rs: the operand parser *)

\* An AsmArgument: kind is the enum variant, val its payload
Arg(k, v) == [kind |-> k, val |-> v, err |-> ""]
\* An AsmArgParseError instead of an AsmArgument
ArgError(e) == [kind |-> "Error", val |-> 0, err |-> e]

\* parse_numeric_asm_arg without the length test of a register token
parse_numeric_asm_arg_any_length(arg) ==
    IF starts_with(arg, <<"V">>) \/ starts_with(arg, <<"v">>)
    THEN LET reg == from_str_radix(SubSeq(arg, 2, 2), 16, U8Max) IN
         IF reg >= 0 THEN Arg("Register", reg) ELSE ArgError("NotANumber")
    ELSE IF starts_with(arg, <<"0", "x">>)
    THEN LET hex == from_str_radix(SubSeq(arg, 3, Len(arg)), 16, U16Max) IN
         IF hex >= 0 THEN Arg("Numeric", hex) ELSE ArgError("NotANumber")
    ELSE IF starts_with(arg, <<"0", "b">>)
    THEN LET bin == from_str_radix(SubSeq(arg, 3, Len(arg)), 2, U16Max) IN
         IF bin >= 0 THEN Arg("Numeric", bin) ELSE ArgError("NotANumber")
    ELSE LET num == from_str_radix(arg, 10, U16Max) IN
         IF num >= 0 THEN Arg("Numeric", num) ELSE ArgError("NotANumber")

parse_numeric_asm_arg(arg) ==
    IF starts_with(arg, <<"V">>) \/ starts_with(arg, <<"v">>)
    THEN IF Len(arg) # 2
         THEN ArgError("InvalidRegister")
         ELSE LET reg == from_str_radix(SubSeq(arg, 2, 2), 16, U8Max) IN
              IF reg >= 0 THEN Arg("Register", reg) ELSE ArgError("NotANumber")
    ELSE IF starts_with(arg, <<"0", "x">>)
    THEN LET hex == from_str_radix(SubSeq(arg, 3, Len(arg)), 16, U16Max) IN
         IF hex >= 0 THEN Arg("Numeric", hex) ELSE ArgError("NotANumber")
    ELSE IF starts_with(arg, <<"0", "b">>)
    THEN LET bin == from_str_radix(SubSeq(arg, 3, Len(arg)), 2, U16Max) IN
         IF bin >= 0 THEN Arg("Numeric", bin) ELSE ArgError("NotANumber")
    ELSE LET num == from_str_radix(arg, 10, U16Max) IN
         IF num >= 0 THEN Arg("Numeric", num) ELSE ArgError("NotANumber")

parse_asm_arg(arg) ==
    IF arg \in {<<"K">>, <<"k">>} THEN Arg("AnyKey", 0)
    ELSE IF arg \in {<<"I">>, <<"i">>} THEN Arg("IPointer", 0)
    ELSE IF arg \in {<<"[", "I", "]">>, <<"[", "i", "]">>} THEN Arg("IRange", 0)
    ELSE IF arg \in {<<"D", "T">>, <<"D", "t">>, <<"d", "T">>, <<"d", "t">>} THEN Arg("DelayTimer", 0)
    ELSE IF arg \in {<<"S", "T">>, <<"S", "t">>, <<"s", "T">>, <<"s", "t">>} THEN Arg("SoundTimer", 0)
    ELSE IF arg \in {<<"F">>, <<"f">>} THEN Arg("Sprite", 0)
    ELSE IF arg \in {<<"B">>, <<"b">>} THEN Arg("Bcd", 0)
    ELSE parse_numeric_asm_arg(arg)

\* Ok: [ok |-> TRUE, args |-> the AsmArguments]; the first error otherwise
RECURSIVE ParseArgsFrom(_, _)
ParseArgsFrom(args, out) ==
    IF args = <<>> THEN [ok |-> TRUE, args |-> out, err |-> ""]
    ELSE LET a == parse_asm_arg(Head(args)) IN
         IF a.kind = "Error" THEN [ok |-> FALSE, args |-> <<>>, err |-> a.err]
         ELSE ParseArgsFrom(Tail(args), Append(out, a))

parse_asm_args(args) == ParseArgsFrom(args, <<>>)

AddrMax == 4095
ByteMax == 255
NibbleMax == 15

\* parse_valid_addr without its range check
parse_valid_addr_unchecked(arg) ==
    IF arg.kind = "Numeric" THEN Ok(arg.val) ELSE Panic

parse_valid_addr(arg) ==
    IF arg.kind = "Numeric"
    THEN IF arg.val <= AddrMax THEN Ok(arg.val) ELSE Err("InvalidAddress")
    ELSE Panic

\* parse_valid_byte with its limit one too high
parse_valid_byte_past_limit(arg) ==
    IF arg.kind = "Numeric"
    THEN IF arg.val <= ByteMax + 1 THEN Ok(arg.val) ELSE Err("InvalidByte")
    ELSE Panic

parse_valid_byte(arg) ==
    IF arg.kind = "Numeric"
    THEN IF arg.val <= ByteMax THEN Ok(arg.val) ELSE Err("InvalidByte")
    ELSE Panic

parse_valid_nibble(arg) ==
    IF arg.kind = "Numeric"
    THEN IF arg.val <= NibbleMax THEN Ok(arg.val) ELSE Err("InvalidNibble")
    ELSE Panic

parse_raw(tokens) ==
    IF Len(tokens) # 1 \/ ~starts_with(tokens[1], <<"0", "x">>)
    THEN Err("InvalidRaw")
    ELSE LET raw == from_str_radix(SubSeq(tokens[1], 3, Len(tokens[1])), 16, U16Max) IN
         IF raw >= 0 THEN Ok(raw) ELSE Err("NotANumber")

---------------------------------------------------------------------------
(* src/assemble.rs: the instruction encoder *)

\* impl From<AsmArgParseError> for AssembleError, applied by `?`: every
\* parse error becomes InvalidArg; a panic is not a value and propagates.
from_parse_error(r) == IF r.kind = "Err" THEN Err("InvalidArg") ELSE r

\* RegBits with the two register nibbles exchanged
RegBits_exchanged(vx, vy) == vy * 256 + vx * 16

\* (vx << 8) + (vy << 4) on u16
RegBits(vx, vy) == vx * 256 + vy * 16

assemble_jp(tokens) ==
    LET parsed == parse_asm_args(Tail(tokens)) IN
    IF ~parsed.ok THEN Err("InvalidArg")
    ELSE LET args == parsed.args IN
         IF Len(args) = 1
         THEN LET addr == parse_valid_addr(args[1]) IN
              IF addr.kind # "Ok" THEN from_parse_error(addr)
              ELSE Ok(\h1000 + addr.val)
         ELSE IF Len(args) = 2
         THEN IF args[1] = Arg("Register", 0)
              THEN LET addr == parse_valid_addr(args[2]) IN
                   IF addr.kind # "Ok" THEN from_parse_error(addr)
                   ELSE Ok(\hB000 + addr.val)
              ELSE Err("InvalidArg")
         ELSE IF Len(args) = 0 THEN Err("MissingArgs")
         ELSE Err("ExtraArgs")

\* The match of assemble_ld on (&args[0], &args[1]).  The source spells the
\* BCD pattern AsmArgument::BCD where parse.rs declares the variant Bcd;
\* both name the operand `B`.
ld_shape(args) ==
    LET a == args[1]
        b == args[2]
    IN
    IF a.kind = "Register" /\ b.kind = "Register"
    THEN Ok(\h8000 + RegBits(a.val, b.val))
    ELSE IF a.kind = "Register" /\ b.kind = "Numeric"
    THEN LET byte == parse_valid_byte(b) IN
         IF byte.kind # "Ok" THEN from_parse_error(byte)
         ELSE Ok(\h6000 + RegBits(a.val, 0) + byte.val)
    ELSE IF a.kind = "IPointer" /\ b.kind = "Numeric"
    THEN LET addr == parse_valid_addr(b) IN
         IF addr.kind # "Ok" THEN from_parse_error(addr)
         ELSE Ok(\hA000 + addr.val)
    ELSE IF a.kind = "Register" /\ b.kind = "DelayTimer"
    THEN Ok(\hF007 + RegBits(a.val, 0))
    ELSE IF a.kind = "Register" /\ b.kind = "AnyKey"
    THEN Ok(\hF00A + RegBits(a.val, 0))
    ELSE IF a.kind = "DelayTimer" /\ b.kind = "Register"
    THEN Ok(\hF015 + RegBits(b.val, 0))
    ELSE IF a.kind = "SoundTimer" /\ b.kind = "Register"
    THEN Ok(\hF018 + RegBits(b.val, 0))
    ELSE IF a.kind = "Sprite" /\ b.kind = "Register"
    THEN Ok(\hF029 + RegBits(b.val, 0))
    ELSE IF a.kind = "Bcd" /\ b.kind = "Register"
    THEN Ok(\hF033 + RegBits(b.val, 0))
    ELSE IF a.kind = "IRange" /\ b.kind = "Register"
    THEN Ok(\hF055 + RegBits(b.val, 0))
    ELSE IF a.kind = "Register" /\ b.kind = "IRange"
    THEN Ok(\hF065 + RegBits(a.val, 0))
    ELSE Err("InvalidArg")

\* The arity test shared by the fixed-arity encoders: tokens.len() against
\* n, then parse_asm_args(&tokens[1..])?; the shape match follows on args
FixedArity(tokens, n) ==
    IF Len(tokens) < n THEN [failed |-> TRUE, res |-> Err("MissingArgs"), args |-> <<>>]
    ELSE IF Len(tokens) > n THEN [failed |-> TRUE, res |-> Err("ExtraArgs"), args |-> <<>>]
    ELSE LET parsed == parse_asm_args(Tail(tokens)) IN
         IF ~parsed.ok
         THEN [failed |-> TRUE, res |-> Err("InvalidArg"), args |-> <<>>]
         ELSE [failed |-> FALSE, res |-> Pending, args |-> parsed.args]

assemble_ld(tokens) ==
    LET arity == FixedArity(tokens, 3) IN
    IF arity.failed THEN arity.res ELSE ld_shape(arity.args)

\* SYS addr - 0nnn and CALL addr - 2nnn
addr_shape(args, base) ==
    IF args[1].kind = "Numeric"
    THEN LET addr == parse_valid_addr(args[1]) IN
         IF addr.kind # "Ok" THEN from_parse_error(addr)
         ELSE Ok(base + addr.val)
    ELSE Err("InvalidArg")

assemble_sys(tokens) ==
    LET arity == FixedArity(tokens, 2) IN
    IF arity.failed THEN arity.res ELSE addr_shape(arity.args, \h0000)

assemble_call(tokens) ==
    LET arity == FixedArity(tokens, 2) IN
    IF arity.failed THEN arity.res ELSE addr_shape(arity.args, \h2000)

\* Vx, byte
reg_byte(args, base) ==
    LET byte == parse_valid_byte(args[2]) IN
    IF byte.kind # "Ok" THEN from_parse_error(byte)
    ELSE Ok(base + RegBits(args[1].val, 0) + byte.val)

\* SE and SNE: Vx, byte or Vx, Vy
skip_shape(args, byte_base, reg_base) ==
    IF args[1].kind = "Register" /\ args[2].kind = "Numeric"
    THEN reg_byte(args, byte_base)
    ELSE IF args[1].kind = "Register" /\ args[2].kind = "Register"
    THEN Ok(reg_base + RegBits(args[1].val, args[2].val))
    ELSE Err("InvalidArg")

assemble_se(tokens) ==
    LET arity == FixedArity(tokens, 3) IN
    IF arity.failed THEN arity.res ELSE skip_shape(arity.args, \h3000, \h5000)

assemble_sne(tokens) ==
    LET arity == FixedArity(tokens, 3) IN
    IF arity.failed THEN arity.res ELSE skip_shape(arity.args, \h4000, \h9000)

add_shape(args) ==
    IF args[1].kind = "Register" /\ args[2].kind = "Numeric"
    THEN reg_byte(args, \h7000)
    ELSE IF args[1].kind = "Register" /\ args[2].kind = "Register"
    THEN Ok(\h8004 + RegBits(args[1].val, args[2].val))
    ELSE IF args[1].kind = "IPointer" /\ args[2].kind = "Register"
    THEN Ok(\hF01E + RegBits(args[2].val, 0))
    ELSE Err("InvalidArg")

assemble_add(tokens) ==
    LET arity == FixedArity(tokens, 3) IN
    IF arity.failed THEN arity.res ELSE add_shape(arity.args)

\* reg_reg that leaves out the second register
reg_reg_without_vy(args, base) ==
    IF args[1].kind = "Register" /\ args[2].kind = "Register"
    THEN Ok(base + RegBits(args[1].val, 0))
    ELSE Err("InvalidArg")

\* OR, AND, XOR, SUB, SUBN: Vx, Vy
reg_reg(args, base) ==
    IF args[1].kind = "Register" /\ args[2].kind = "Register"
    THEN Ok(base + RegBits(args[1].val, args[2].val))
    ELSE Err("InvalidArg")

assemble_or(tokens) ==
    LET arity == FixedArity(tokens, 3) IN
    IF arity.failed THEN arity.res ELSE reg_reg(arity.args, \h8001)

assemble_and(tokens) ==
    LET arity == FixedArity(tokens, 3) IN
    IF arity.failed THEN arity.res ELSE reg_reg(arity.args, \h8002)

assemble_xor(tokens) ==
    LET arity == FixedArity(tokens, 3) IN
    IF arity.failed THEN arity.res ELSE reg_reg(arity.args, \h8003)

assemble_sub(tokens) ==
    LET arity == FixedArity(tokens, 3) IN
    IF arity.failed THEN arity.res ELSE reg_reg(arity.args, \h8005)

assemble_subn(tokens) ==
    LET arity == FixedArity(tokens, 3) IN
    IF arity.failed THEN arity.res ELSE reg_reg(arity.args, \h8007)

\* SHR and SHL: the operands are parsed before they are counted
shift(tokens, base) ==
    LET parsed == parse_asm_args(Tail(tokens)) IN
    IF ~parsed.ok THEN Err("InvalidArg")
    ELSE LET args == parsed.args IN
         IF Len(args) = 1
         THEN IF args[1].kind = "Register"
              THEN Ok(base + RegBits(args[1].val, 0))
              ELSE Err("InvalidArg")
         ELSE IF Len(args) = 2
         THEN reg_reg(args, base)
         ELSE IF Len(args) = 0 THEN Err("MissingArgs")
         ELSE Err("ExtraArgs")

assemble_shr(tokens) == shift(tokens, \h8006)

assemble_shl(tokens) == shift(tokens, \h800E)

rnd_shape(args) ==
    IF args[1].kind = "Register" /\ args[2].kind = "Numeric"
    THEN reg_byte(args, \hC000)
    ELSE Err("InvalidArg")

assemble_rnd(tokens) ==
    LET arity == FixedArity(tokens, 3) IN
    IF arity.failed THEN arity.res ELSE rnd_shape(arity.args)

drw_shape(args) ==
    IF args[1].kind = "Register" /\ args[2].kind = "Register" /\ args[3].kind = "Numeric"
    THEN LET nibble == parse_valid_nibble(args[3]) IN
         IF nibble.kind # "Ok" THEN from_parse_error(nibble)
         ELSE Ok(\hC000 + RegBits(args[1].val, args[2].val) + nibble.val)
    ELSE Err("InvalidArg")

assemble_drw(tokens) ==
    LET arity == FixedArity(tokens, 4) IN
    IF arity.failed THEN arity.res ELSE drw_shape(arity.args)

\* SKP Vx - Ex9E and SKNP Vx - ExA1
key_shape(args, base) ==
    IF args[1].kind = "Register"
    THEN Ok(base + RegBits(args[1].val, 0))
    ELSE Err("InvalidArg")

assemble_skp(tokens) ==
    LET arity == FixedArity(tokens, 2) IN
    IF arity.failed THEN arity.res ELSE key_shape(arity.args, \hE09E)

assemble_sknp(tokens) ==
    LET arity == FixedArity(tokens, 2) IN
    IF arity.failed THEN arity.res ELSE key_shape(arity.args, \hE0A1)

\* char::to_ascii_uppercase over a token
ToUpper(tok) ==
    [i \in 1..Len(tok) |->
        IF \E k \in 1..26 : LowerLetters[k] = tok[i]
        THEN UpperLetters[CHOOSE k \in 1..26 : LowerLetters[k] = tok[i]]
        ELSE tok[i]]

ToLower(tok) ==
    [i \in 1..Len(tok) |->
        IF \E k \in 1..26 : UpperLetters[k] = tok[i]
        THEN LowerLetters[CHOOSE k \in 1..26 : UpperLetters[k] = tok[i]]
        ELSE tok[i]]

\* A match arm that lists every letter-case spelling of a mnemonic
AnyCase(tok, m) == Len(tok) = Len(m) /\ ToUpper(tok) = m
\* A match arm that lists only the upper-case and the lower-case spelling
UpperOrLower(tok, m) == tok = m \/ tok = ToLower(m)

\* tokenize that leaves the commas on the tokens
tokenize_with_commas(line) == split_whitespace(line)

\* The tokens of a line: split on whitespace, trailing commas trimmed
tokenize(line) ==
    LET raw == split_whitespace(line) IN
    [i \in 1..Len(raw) |-> trim_end_matches(raw[i], ",")]

assemble_instruction(line) ==
    LET tokens == tokenize(line) IN
    IF tokens = <<>> THEN Panic
    ELSE LET op == tokens[1] IN
    IF op = <<"C", "L", "S">> THEN Ok(\h00E0)
    ELSE IF op = <<"R", "E", "T">> THEN Ok(\h00EE)
    ELSE IF AnyCase(op, <<"J", "P">>) THEN assemble_jp(tokens)
    ELSE IF AnyCase(op, <<"L", "D">>) THEN assemble_ld(tokens)
    ELSE IF AnyCase(op, <<"S", "Y", "S">>) THEN assemble_sys(tokens)
    ELSE IF UpperOrLower(op, <<"C", "A", "L", "L">>) THEN assemble_call(tokens)
    ELSE IF AnyCase(op, <<"S", "E">>) THEN assemble_se(tokens)
    ELSE IF AnyCase(op, <<"S", "N", "E">>) THEN assemble_sne(tokens)
    ELSE IF AnyCase(op, <<"A", "D", "D">>) THEN assemble_add(tokens)
    ELSE IF AnyCase(op, <<"O", "R">>) THEN assemble_or(tokens)
    ELSE IF AnyCase(op, <<"A", "N", "D">>) THEN assemble_and(tokens)
    ELSE IF AnyCase(op, <<"X", "O", "R">>) THEN assemble_xor(tokens)
    ELSE IF AnyCase(op, <<"S", "U", "B">>) THEN assemble_sub(tokens)
    ELSE IF UpperOrLower(op, <<"S", "U", "B", "N">>) THEN assemble_subn(tokens)
    ELSE IF AnyCase(op, <<"S", "H", "R">>) THEN assemble_shr(tokens)
    ELSE IF AnyCase(op, <<"S", "H", "L">>) THEN assemble_shl(tokens)
    ELSE IF AnyCase(op, <<"R", "N", "D">>) THEN assemble_rnd(tokens)
    ELSE IF AnyCase(op, <<"D", "R", "W">>) THEN assemble_drw(tokens)
    ELSE IF AnyCase(op, <<"S", "K", "P">>) THEN assemble_skp(tokens)
    ELSE IF UpperOrLower(op, <<"S", "K", "N", "P">>) THEN assemble_sknp(tokens)
    ELSE IF starts_with(op, <<"0", "x">>) /\ Len(tokens) = 1
         THEN from_parse_error(parse_raw(tokens))
         ELSE Err("UnknownOp")

---------------------------------------------------------------------------
(* The encoder's inputs: lines built from a first token and operand tokens. *)
(* An operand is a token text t together with what the token denotes: the   *)
(* operand kind k and its value v (k = "Error" for a token that is no       *)
(* operand).                                                                *)

Operand(k, v, t) == [k |-> k, v |-> v, t |-> t]

RegisterOperands ==
    {Operand("Register", x, <<"V", UpperDigits[x + 1]>>) : x \in 0..15}
    \cup {Operand("Register", 10, <<"v", "a">>)}

NamedOperands ==
    { Operand("AnyKey", 0, <<"K">>), Operand("IPointer", 0, <<"I">>),
      Operand("IRange", 0, <<"[", "I", "]">>), Operand("DelayTimer", 0, <<"D", "T">>),
      Operand("SoundTimer", 0, <<"S", "T">>), Operand("Sprite", 0, <<"F">>),
      Operand("Bcd", 0, <<"B">>), Operand("DelayTimer", 0, <<"d", "T">>) }

NumericOperands ==
    {Operand("Numeric", n, to_string(n)) : n \in {0, 15, 16, 255, 256}}
    \cup {Operand("Numeric", n, format_alt_upper_hex(n)) :
            n \in {\h300, \hFFF, \h1000, \hFFFF}}
    \cup {Operand("Numeric", 5, <<"0", "b", "1", "0", "1">>)}

NoOperands ==
    {Operand("Error", 0, t) : t \in {<<"z", "z">>, <<"V", "G">>, <<"V", "1", "2">>, <<"6", "5", "5", "3", "6">>, <<",">>}}

\* A lower-case register and a byte in hexadecimal
ExampleOperands == {Operand("Register", 3, <<"v", "3">>), Operand("Numeric", \h45, <<"0", "x", "4", "5">>)}

OperandTokens ==
    RegisterOperands \cup NamedOperands \cup NumericOperands \cup NoOperands
    \cup ExampleOperands

\* Tokens that begin with V or v: every register in both cases of the
\* letter and of the digit, and tokens that are no register
RegisterTokens ==
    {Operand("Register", x, <<p, d[x + 1]>>) :
        p \in {"V", "v"}, x \in 0..15, d \in {LowerDigits, UpperDigits}}
    \cup {Operand("Error", 0, t) :
            t \in {<<"V">>, <<"v">>, <<"V", "G">>, <<"v", "g">>, <<"V", "1", "2">>, <<"v", "1", "F">>, <<"V", "+">>, <<"V", "-">>, <<"V", "V">>, <<"V", "0", "x", "1">>}}

\* The operands of the lines that are enumerated at every length
FewOperands ==
    { Operand("Register", 1, <<"V", "1">>), Operand("Numeric", \h300, <<"0", "x", "3", "0", "0">>),
      Operand("Error", 0, <<"z", "z">>) }

\* The operands of the three-operand lines
SomeOperands ==
    { Operand("Register", 0, <<"V", "0">>), Operand("Register", 1, <<"V", "1">>),
      Operand("AnyKey", 0, <<"K">>), Operand("IPointer", 0, <<"I">>),
      Operand("Numeric", \h300, <<"0", "x", "3", "0", "0">>), Operand("Numeric", 7, <<"7">>),
      Operand("Error", 0, <<"z", "z">>) }

\* The third operands of the DRW lines: every nibble, and more
ThirdOperands ==
    {Operand("Numeric", n, to_string(n)) : n \in 0..17}
    \cup { Operand("Numeric", 255, <<"0", "x", "F", "F">>), Operand("AnyKey", 0, <<"K">>),
           Operand("Register", 1, <<"V", "1">>), Operand("Error", 0, <<"z", "z">>) }

Mnemonics ==
    { <<"C", "L", "S">>, <<"R", "E", "T">>, <<"S", "Y", "S">>, <<"J", "P">>, <<"C", "A", "L", "L">>, <<"S", "E">>, <<"S", "N", "E">>, <<"L", "D">>, <<"A", "D", "D">>, <<"O", "R">>,
      <<"A", "N", "D">>, <<"X", "O", "R">>, <<"S", "U", "B">>, <<"S", "U", "B", "N">>, <<"S", "H", "R">>, <<"S", "H", "L">>, <<"R", "N", "D">>, <<"D", "R", "W">>, <<"S", "K", "P">>, <<"S", "K", "N", "P">> }

\* First tokens: every mnemonic in upper and in lower case, mixed-case
\* spellings, a word that is no mnemonic, and raw literals
Spellings ==
    Mnemonics \cup {ToLower(m) : m \in Mnemonics}
    \cup { <<"R", "e", "t">>, <<"C", "l", "s">>, <<"C", "a", "l", "l">>, <<"s", "U", "b", "N">>, <<"S", "k", "N", "p">>, <<"j", "P">>, <<"S", "y", "s">>, <<"d", "R", "w">> }
    \cup { <<"N", "O", "P">>, <<"0", "x", "1", "2", "3", "4">>, <<"0", "x", "Z", "Z">>, <<"0", "x", "1", "2", "3", "4", "5">> }

\* The longest operand list of the lines enumerated at every length
MaxOperands == 4

\* The text of a line: the tokens separated by one space, with a comma
\* after every operand but the last when commas is TRUE
Render(first, ops, commas) ==
    join(<<first>> \o
         [i \in 1..Len(ops) |->
            IF commas /\ i < Len(ops) THEN Append(ops[i].t, ",") ELSE ops[i].t],
         <<" ">>)

PreIdle ==
    /\ unprocessed = <<>>
    /\ lines = <<>>
    /\ prev_lines = <<>>
    /\ pc = "idle"
    /\ result = Pending
    /\ alias_map = <<>>
    /\ label_map = <<>>

\* The line is the rendering of a first token and its operands
IsInput(first, ops, commas) ==
    /\ mnemonic = first
    /\ operands = ops
    /\ inst = Render(first, ops, commas)
    /\ opcode = Pending
    /\ PreIdle

InitAsm ==
    \/ \E m \in Mnemonics, k \in 0..2 : \E ops \in [1..k -> OperandTokens] :
          IsInput(m, ops, TRUE)
    \/ \E m \in Spellings, k \in 0..MaxOperands : \E ops \in [1..k -> FewOperands] :
          IsInput(m, ops, FALSE)
    \/ \E m \in Mnemonics : \E ops \in [1..3 -> SomeOperands] :
          IsInput(m, ops, TRUE)
    \/ \E a \in RegisterOperands, b \in RegisterOperands, c \in ThirdOperands :
          IsInput(<<"D", "R", "W">>, <<a, b, c>>, TRUE)
    \/ \E m \in Mnemonics, t \in RegisterTokens :
          IsInput(m, <<t>>, FALSE)

\* lib.rs run: assemble::assemble_instruction(instruction)
AssembleInstruction ==
    /\ opcode = Pending
    /\ opcode' = assemble_instruction(inst)
    /\ UNCHANGED <<mnemonic, operands, inst>>
    /\ UNCHANGED pre_vars

NextAsm == AssembleInstruction

SpecAsm == InitAsm /\ [][NextAsm]_vars

---------------------------------------------------------------------------
(* src/preprocess.rs: the preprocessing passes.  Indices are 0-based as in *)
(* the source; At(ls, i) is ls[i].                                         *)

RESERVED_WORDS ==
    { <<"C", "L", "S">>, <<"R", "E", "T">>, <<"S", "Y", "S">>, <<"J", "P">>, <<"C", "A", "L", "L">>, <<"S", "E">>, <<"L", "D">>, <<"A", "D", "D">>, <<"O", "R">>, <<"A", "N", "D">>,
      <<"X", "O", "R">>, <<"S", "U", "B">>, <<"S", "H", "R">>, <<"S", "H", "L">>, <<"S", "U", "B", "N">>, <<"S", "N", "E">>, <<"R", "N", "D">>, <<"D", "R", "W">>, <<"S", "K", "P">>, <<"S", "K", "N", "P">>,
      <<"a", "l", "i", "a", "s">> }

At(ls, i) == ls[i + 1]

\* &s[from..to] and &ls[from..to]
Slice(s, from, to) == SubSeq(s, from + 1, to)

\* Vec::remove(index)
Remove(ls, index) == Slice(ls, 0, index) \o Slice(ls, index + 1, Len(ls))

\* for (i, index) in to_remove.into_iter().enumerate() { lines.remove(index - i) }
RECURSIVE RemoveEach(_, _, _)
RemoveEach(ls, to_remove, i) ==
    IF i >= Len(to_remove) THEN ls
    ELSE RemoveEach(Remove(ls, At(to_remove, i) - i), to_remove, i + 1)

\* for (i, replacement) in to_replace { lines[i] = replacement }
RECURSIVE ReplaceEach(_, _)
ReplaceEach(ls, to_replace) ==
    IF to_replace = <<>> THEN ls
    ELSE ReplaceEach([ls EXCEPT ![Head(to_replace)[1] + 1] = Head(to_replace)[2]],
                     Tail(to_replace))

\* The outcome of a pass: the line list and the table it built, or an error
PassOk(ls, map) == [kind |-> "Ok", err |-> "", lines |-> ls, map |-> map]
PassErr(e) == [kind |-> "Err", err |-> e, lines |-> <<>>, map |-> <<>>]
PassPanic == [kind |-> "Panic", err |-> "", lines |-> <<>>, map |-> <<>>]

\* The cleaning at the head of preprocess: trim, drop empty and comment
\* lines, cut a trailing comment
cut_comment(l) ==
    LET i == find(l, ";") IN IF i < 0 THEN l ELSE Slice(l, 0, i)

clean(src) ==
    LET trimmed == [i \in 1..Len(src) |-> trim(src[i])]
        IsKept(l) == l # <<>> /\ ~starts_with(l, <<";">>)
        kept == SelectSeq(trimmed, IsKept)
    IN [i \in 1..Len(kept) |-> cut_comment(kept[i])]

\* --- evaluate_aliases ---

\* find_aliases where a second declaration replaces the first
RECURSIVE find_aliases_overwriting(_, _, _, _)
find_aliases_overwriting(ls, i, map, to_remove) ==
    IF i >= Len(ls) THEN [kind |-> "Ok", err |-> "", map |-> map, to_remove |-> to_remove]
    ELSE LET line == At(ls, i) IN
         IF starts_with(line, <<"a", "l", "i", "a", "s">>)
         THEN LET tokens == split_whitespace(line) IN
              IF Len(tokens) > 3 THEN PassErr("TooManyAliasArgs")
              ELSE IF Len(tokens) < 3 THEN PassErr("TooFewAliasArgs")
              ELSE LET key == trim_end_matches(tokens[2], ",") IN
                   IF key \in RESERVED_WORDS THEN PassErr("ReservedAlias")
                   ELSE find_aliases_overwriting(ls, i + 1, (key :> tokens[3]) @@ map,
                                     Append(to_remove, i))
         ELSE find_aliases_overwriting(ls, i + 1, map, to_remove)

\* find_aliases_skipping_short that passes over a declaration with too few tokens
RECURSIVE find_aliases_skipping_short(_, _, _, _)
find_aliases_skipping_short(ls, i, map, to_remove) ==
    IF i >= Len(ls) THEN [kind |-> "Ok", err |-> "", map |-> map, to_remove |-> to_remove]
    ELSE LET line == At(ls, i) IN
         IF starts_with(line, <<"a", "l", "i", "a", "s">>)
         THEN LET tokens == split_whitespace(line) IN
              IF Len(tokens) > 3 THEN PassErr("TooManyAliasArgs")
              ELSE IF Len(tokens) < 3
              THEN find_aliases_skipping_short(ls, i + 1, map, to_remove)
              ELSE LET key == trim_end_matches(tokens[2], ",") IN
                   IF key \in RESERVED_WORDS THEN PassErr("ReservedAlias")
                   ELSE IF key \in DOMAIN map THEN PassErr("ReusedAlias")
                   ELSE find_aliases_skipping_short(ls, i + 1, (key :> tokens[3]) @@ map,
                                     Append(to_remove, i))
         ELSE find_aliases_skipping_short(ls, i + 1, map, to_remove)

\* The first loop: collect the declarations into alias_map and to_remove
RECURSIVE find_aliases(_, _, _, _)
find_aliases(ls, i, map, to_remove) ==
    IF i >= Len(ls) THEN [kind |-> "Ok", err |-> "", map |-> map, to_remove |-> to_remove]
    ELSE LET line == At(ls, i) IN
         IF starts_with(line, <<"a", "l", "i", "a", "s">>)
         THEN LET tokens == split_whitespace(line) IN
              IF Len(tokens) > 3 THEN PassErr("TooManyAliasArgs")
              ELSE IF Len(tokens) < 3 THEN PassErr("TooFewAliasArgs")
              ELSE LET key == trim_end_matches(tokens[2], ",") IN
                   IF key \in RESERVED_WORDS THEN PassErr("ReservedAlias")
                   ELSE IF key \in DOMAIN map THEN PassErr("ReusedAlias")
                   ELSE find_aliases(ls, i + 1, (key :> tokens[3]) @@ map,
                                     Append(to_remove, i))
         ELSE find_aliases(ls, i + 1, map, to_remove)

\* alias_tokens that looks the token up with its comma
RECURSIVE alias_tokens_with_comma(_, _)
alias_tokens_with_comma(tokens, map) ==
    IF tokens = <<>> THEN <<>>
    ELSE LET token == Head(tokens) IN
         <<" ">> \o (IF token \in DOMAIN map THEN map[token] ELSE token)
             \o alias_tokens_with_comma(Tail(tokens), map)

\* The text the second loop builds for one line: each comma-trimmed token,
\* or its alias value, after a space
RECURSIVE alias_tokens(_, _)
alias_tokens(tokens, map) ==
    IF tokens = <<>> THEN <<>>
    ELSE LET token == trim_end_matches(Head(tokens), ",") IN
         <<" ">> \o (IF token \in DOMAIN map THEN map[token] ELSE token)
             \o alias_tokens(Tail(tokens), map)

replace_aliases(line, map) ==
    LET tokens == split_whitespace(line) IN
    IF \E k \in 1..Len(tokens) : trim_end_matches(tokens[k], ",") \in DOMAIN map
    THEN trim(alias_tokens(tokens, map))
    ELSE line

evaluate_aliases(ls) ==
    LET found == find_aliases(ls, 0, <<>>, <<>>) IN
    IF found.kind # "Ok" THEN found
    ELSE IF DOMAIN found.map = {} THEN PassOk(ls, found.map)
    ELSE LET kept == RemoveEach(ls, found.to_remove, 0) IN
         PassOk([i \in 1..Len(kept) |-> replace_aliases(kept[i], found.map)],
                found.map)

\* --- evaluate_sprites and process_sprite ---

SpriteSpanMax == 16

\* The bytes of the sprite: parse_valid_byte over the parsed arguments,
\* stopping at the first that is not a byte
RECURSIVE sprite_bytes(_, _)
sprite_bytes(args, out) ==
    IF args = <<>> THEN [kind |-> "Ok", bytes |-> out]
    ELSE LET byte == parse_valid_byte(Head(args)) IN
         IF byte.kind = "Panic" THEN [kind |-> "Panic", bytes |-> <<>>]
         ELSE IF byte.kind = "Err" THEN [kind |-> "Err", bytes |-> <<>>]
         ELSE sprite_bytes(Tail(args), Append(out, byte.val))

\* pair_bytes with the first byte of a pair in the low half
RECURSIVE pair_bytes_low_first(_)
pair_bytes_low_first(bytes) ==
    IF bytes = <<>> THEN <<>>
    ELSE IF Len(bytes) = 1 THEN <<bytes[1]>>
    ELSE <<bytes[2] * 256 + bytes[1]>> \o pair_bytes_low_first(Tail(Tail(bytes)))

\* sprite_bytes.chunks(2) paired into u16
RECURSIVE pair_bytes(_)
pair_bytes(bytes) ==
    IF bytes = <<>> THEN <<>>
    ELSE IF Len(bytes) = 1 THEN <<bytes[1] * 256 + 0>>
    ELSE <<bytes[1] * 256 + bytes[2]>> \o pair_bytes(Tail(Tail(bytes)))

sprite_label(line) ==
    LET name == trim(Slice(line, 6, Len(line))) IN
    IF ends_with(name, <<":">>) THEN name ELSE Append(name, ":")

\* What process_sprite records: the changes (index, text) and the removals
SpriteOk(changes, removes) ==
    [kind |-> "Ok", err |-> "", changes |-> changes, removes |-> removes]
SpriteErr(e) == [kind |-> "Err", err |-> e, changes |-> <<>>, removes |-> <<>>]
SpritePanic == [kind |-> "Panic", err |-> "", changes |-> <<>>, removes |-> <<>>]

\* process_sprite from `let raws` on: the label, the raws, the deletions
record_sprite(ls, start, end, raws) ==
    LET remove_threshold == start + Len(raws) + 1 IN
    SpriteOk(<< <<start, sprite_label(At(ls, start))>> >> \o
                 [i \in 1..Len(raws) |->
                     <<start + 1 + (i - 1), format_alt_upper_hex(raws[i])>>],
             [k \in 1..(end - remove_threshold + 1) |-> remove_threshold + (k - 1)])

\* process_sprite from the parsed arguments on
sprite_from_args(ls, start, end, bytes) ==
    IF bytes.kind = "Panic" THEN SpritePanic
    ELSE IF bytes.kind = "Err" THEN SpriteErr("InvalidSpriteByte")
    ELSE record_sprite(ls, start, end, pair_bytes(bytes.bytes))

process_sprite(ls, start, end) ==
    LET parsed == parse_asm_args(Slice(ls, start + 1, end)) IN
    IF ~parsed.ok THEN SpriteErr("InvalidSpriteByte")
    ELSE sprite_from_args(ls, start, end, sprite_bytes(parsed.args, <<>>))

\* while &*lines[i] != "endsprite" { i += 1; if i == lines.len() { Unclosed } }:
\* the index of the first `endsprite` line from i on, or -1
RECURSIVE find_endsprite(_, _)
find_endsprite(ls, i) ==
    IF At(ls, i) = <<"e", "n", "d", "s", "p", "r", "i", "t", "e">> THEN i
    ELSE IF i + 1 = Len(ls) THEN -1
    ELSE find_endsprite(ls, i + 1)

RECURSIVE scan_sprites(_, _, _, _)

\* process_sprite(...)? and the end of the loop body
sprite_done(ls, sprite_end, done, to_change, to_remove) ==
    IF done.kind = "Panic" THEN PassPanic
    ELSE IF done.kind = "Err" THEN PassErr(done.err)
    ELSE scan_sprites(ls, sprite_end + 1, to_change \o done.changes,
                      to_remove \o done.removes)

\* sprite_block that also rejects a span of exactly SpriteSpanMax
sprite_block_at_limit(ls, sprite_start, sprite_end, to_change, to_remove) ==
    IF sprite_end < 0 THEN PassErr("UnclosedSprite")
    ELSE IF sprite_end - sprite_start >= SpriteSpanMax THEN PassErr("OversizedSprite")
    ELSE sprite_done(ls, sprite_end, process_sprite(ls, sprite_start, sprite_end),
                     to_change, to_remove)

\* The Ordering::Equal arm: a declaration `sprite NAME` at index sprite_start
sprite_block(ls, sprite_start, sprite_end, to_change, to_remove) ==
    IF sprite_end < 0 THEN PassErr("UnclosedSprite")
    ELSE IF sprite_end - sprite_start > SpriteSpanMax THEN PassErr("OversizedSprite")
    ELSE sprite_done(ls, sprite_end, process_sprite(ls, sprite_start, sprite_end),
                     to_change, to_remove)

\* The while loop of evaluate_sprites from index i on
scan_sprites(ls, i, to_change, to_remove) ==
    IF i >= Len(ls)
    THEN [kind |-> "Ok", err |-> "", changes |-> to_change, removes |-> to_remove]
    ELSE IF starts_with(At(ls, i), <<"s", "p", "r", "i", "t", "e">>)
    THEN LET tokens == split_whitespace(At(ls, i)) IN
         IF Len(tokens) < 2 THEN PassErr("TooFewSpriteArgs")
         ELSE IF Len(tokens) > 2 THEN PassErr("TooManySpriteArgs")
         ELSE sprite_block(ls, i, find_endsprite(ls, i), to_change, to_remove)
    ELSE scan_sprites(ls, i + 1, to_change, to_remove)

evaluate_sprites(ls) ==
    LET scanned == scan_sprites(ls, 0, <<>>, <<>>) IN
    IF scanned.kind # "Ok" THEN scanned
    ELSE PassOk(RemoveEach(ReplaceEach(ls, scanned.changes), scanned.removes, 0), <<>>)

\* --- evaluate_memory_offsets ---

\* The largest offset the model parses; the source parses into a usize
OffsetLimit == 100000

\* let used_memory = 2 * lines.len()
used_memory(ls) == 2 * Len(ls)

\* while end < chars.len() && !chars[end].is_whitespace() { end += 1 }
RECURSIVE marker_end(_, _)
marker_end(chars, end) ==
    IF end < Len(chars) /\ ~IsWhitespace(At(chars, end))
    THEN marker_end(chars, end + 1)
    ELSE end

\* The replacement of a line whose first '#' is at index, or an error
replace_marker(line, index, used) ==
    LET start == index + 1
        end == marker_end(line, index + 1)
    IN IF start >= Len(line) THEN [kind |-> "Err", text |-> <<>>]
       ELSE LET offset == from_str_radix(Slice(line, start, end), 10, OffsetLimit) IN
            IF offset < 0 THEN [kind |-> "Err", text |-> <<>>]
            ELSE [kind |-> "Ok",
                  text |-> Slice(line, 0, index) \o to_string(used + offset) \o
                           (IF end < Len(line) - 1
                            THEN Slice(line, end + 1, Len(line))
                            ELSE <<>>)]

\* scan_offsets that ends the for loop at the first line it replaces
RECURSIVE scan_offsets_one_line(_, _, _, _, _)
scan_offsets_one_line(ls, i, used, to_replace, found_changes) ==
    IF i >= Len(ls) \/ found_changes
    THEN [kind |-> "Ok", lines |-> ReplaceEach(ls, to_replace), found |-> found_changes]
    ELSE LET line == At(ls, i)
             index == find(line, "#")
         IN IF index >= 0
            THEN LET r == replace_marker(line, index, used) IN
                 IF r.kind = "Err" THEN [kind |-> "Err", lines |-> <<>>, found |-> TRUE]
                 ELSE scan_offsets_one_line(ls, i + 1, used, Append(to_replace, <<i, r.text>>), TRUE)
            ELSE scan_offsets_one_line(ls, i + 1, used, to_replace, found_changes)

\* One for loop over the lines, from index i on
RECURSIVE scan_offsets(_, _, _, _, _)
scan_offsets(ls, i, used, to_replace, found_changes) ==
    IF i >= Len(ls)
    THEN [kind |-> "Ok", lines |-> ReplaceEach(ls, to_replace), found |-> found_changes]
    ELSE LET line == At(ls, i)
             index == find(line, "#")
         IN IF index >= 0
            THEN LET r == replace_marker(line, index, used) IN
                 IF r.kind = "Err" THEN [kind |-> "Err", lines |-> <<>>, found |-> TRUE]
                 ELSE scan_offsets(ls, i + 1, used, Append(to_replace, <<i, r.text>>), TRUE)
            ELSE scan_offsets(ls, i + 1, used, to_replace, found_changes)

\* offsets_loop that scans the lines once
offsets_loop_single_scan(ls, used) ==
    LET scan == scan_offsets(ls, 0, used, <<>>, FALSE) IN
    IF scan.kind = "Err" THEN PassErr("InvalidOffset")
    ELSE PassOk(scan.lines, <<>>)

\* while found_changes { ... }
RECURSIVE offsets_loop(_, _)
offsets_loop(ls, used) ==
    LET scan == scan_offsets(ls, 0, used, <<>>, FALSE) IN
    IF scan.kind = "Err" THEN PassErr("InvalidOffset")
    ELSE IF scan.found THEN offsets_loop(scan.lines, used)
    ELSE PassOk(scan.lines, <<>>)

evaluate_memory_offsets(ls) == offsets_loop(ls, used_memory(ls))

\* The values of lines at the head of every iteration of the while loop,
\* in order: one list for each scan the pass makes
RECURSIVE offsets_scans_from(_, _, _)
offsets_scans_from(ls, used, scanned) ==
    LET scan == scan_offsets(ls, 0, used, <<>>, FALSE) IN
    IF scan.kind = "Err" \/ ~scan.found THEN Append(scanned, ls)
    ELSE offsets_scans_from(scan.lines, used, Append(scanned, ls))

offsets_scans(ls) == offsets_scans_from(ls, used_memory(ls), <<>>)

\* --- evaluate_labels ---

\* label_address that does not discount the declarations already found
label_address_by_index(i, removed) == i * 2 + \h200

\* (i - to_remove.len()) * 2 + 0x200
label_address(i, removed) == (i - removed) * 2 + \h200

RECURSIVE find_labels(_, _, _, _)
find_labels(ls, i, map, to_remove) ==
    IF i >= Len(ls) THEN [kind |-> "Ok", err |-> "", map |-> map, to_remove |-> to_remove]
    ELSE LET line == At(ls, i) IN
         IF ends_with(line, <<":">>)
         THEN LET label == trim_end_matches(line, ":") IN
              IF \E k \in 1..Len(label) : IsWhitespace(label[k])
              THEN PassErr("InvalidLabel")
              ELSE IF label \in RESERVED_WORDS THEN PassErr("ReservedLabel")
              ELSE IF label \in DOMAIN map THEN PassErr("ReusedLabel")
              ELSE find_labels(ls, i + 1,
                               (label :> label_address(i, Len(to_remove))) @@ map,
                               Append(to_remove, i))
         ELSE find_labels(ls, i + 1, map, to_remove)

\* The text the second loop builds for one line
RECURSIVE label_tokens(_, _)
label_tokens(tokens, map) ==
    IF tokens = <<>> THEN <<>>
    ELSE LET token == Head(tokens) IN
         <<" ">> \o (IF trim_end_matches(token, ",") \in DOMAIN map
                 THEN format_lower_hex(map[trim_end_matches(token, ",")])
                 ELSE token)
             \o label_tokens(Tail(tokens), map)

replace_labels(line, map) ==
    LET tokens == split_whitespace(line) IN
    IF \E k \in 1..Len(tokens) : trim_end_matches(tokens[k], ",") \in DOMAIN map
    THEN label_tokens(tokens, map)
    ELSE line

evaluate_labels(ls) ==
    LET found == find_labels(ls, 0, <<>>, <<>>) IN
    IF found.kind # "Ok" THEN found
    ELSE LET kept == RemoveEach(ls, found.to_remove, 0) IN
         PassOk([i \in 1..Len(kept) |-> replace_labels(kept[i], found.map)],
                found.map)

\* --- preprocess ---

preprocess(src) ==
    LET aliased == evaluate_aliases(clean(src)) IN
    IF aliased.kind # "Ok" THEN aliased
    ELSE LET sprited == evaluate_sprites(aliased.lines) IN
         IF sprited.kind # "Ok" THEN sprited
         ELSE LET offset == evaluate_memory_offsets(sprited.lines) IN
              IF offset.kind # "Ok" THEN offset
              ELSE evaluate_labels(offset.lines)

---------------------------------------------------------------------------
(* The preprocessor's inputs: short programs over a pool of source lines,  *)
(* and programs that hold one sprite block.                                *)

SourceLines ==
    { <<"a", ":">>, <<"b", ":">>, <<"J", "P", " ", "a">>, <<"C", "A", "L", "L", " ", "b">>, <<"L", "D", " ", "I", ",", " ", "#", "0">>, <<"C", "L", "S">>,
      <<"a", "l", "i", "a", "s", " ", "r", " ", "V", "2">>, <<"L", "D", " ", "r", ",", " ", "#", "1">>, <<";", " ", "n", "o", "t", "e">> }

\* The longest program enumerated over SourceLines
MaxLines == 3

\* The most data lines of a sprite block
MaxSpriteBytes == 16

SpriteData == << <<"0", "x", "F", "F">>, <<"0", "x", "0", "F">>, <<"0", "b", "1", "0", "1">>, <<"1", "2">> >>

\* sprite s, n data lines, endsprite
SpriteBlock(n) ==
    << <<"s", "p", "r", "i", "t", "e", " ", "s">> >> \o [j \in 1..n |-> SpriteData[((j - 1) % Len(SpriteData)) + 1]]
                     \o << <<"e", "n", "d", "s", "p", "r", "i", "t", "e">> >>

\* Data lines that are a byte, a register, named operands, a number above
\* 255 and a word that is no number
MixedSpriteData == { <<"0", "x", "F", "F">>, <<"V", "1">>, <<"K">>, <<"D", "T">>, <<"2", "5", "6">>, <<"z", "z">> }

\* The most data lines of a sprite block drawn from MixedSpriteData
MaxMixedLines == 2

BeforeSprite == { <<>>, << <<"C", "L", "S">> >>, << <<"a", ":">> >>, << <<"a", ":">>, <<"C", "L", "S">> >> }
AfterSprite == { <<>>, << <<"L", "D", " ", "I", ",", " ", "s">> >>, << <<"L", "D", " ", "I", ",", " ", "#", "0">> >>, << <<"b", ":">> >>, << <<"C", "L", "S">>, <<"b", ":">> >> }

\* Declarations and uses of aliases and labels: a use before and after its
\* declaration, an alias of an alias, a token that only holds a name, a
\* second declaration, reserved and keyword names, a short declaration
SymbolLines ==
    { <<"a", "l", "i", "a", "s", " ", "F", "O", "O", " ", "V", "2">>, <<"a", "l", "i", "a", "s", " ", "q", " ", "F", "O", "O">>, <<"a", "l", "i", "a", "s", " ", "F", "O", "O", " ", "V", "3">>, <<"L", "D", " ", "F", "O", "O", ",", " ", "0", "x", "1", "0">>,
      <<"L", "D", " ", "q", ",", " ", "F", "O", "O", "D">>, <<"a", "l", "i", "a", "s", " ", "L", "D", " ", "V", "1">>, <<"a", "l", "i", "a", "s", " ", "e", "n", "d", "s", "p", "r", "i", "t", "e", " ", "V", "1">>, <<"a", "l", "i", "a", "s", " ", "x">>,
      <<"L", "D", ":">>, <<"e", "n", "d", "s", "p", "r", "i", "t", "e", ":">>, <<"s", "t", "a", "r", "t", ":">>, <<"J", "P", " ", "s", "t", "a", "r", "t">> }

\* Lines as they come from a file: padded, blank, with a trailing comment
RawLines ==
    { <<"s", "t", "a", "r", "t", ":", " ", ";", " ", "e", "n", "t", "r", "y">>, <<" ", " ", "C", "L", "S", " ", " ">>, <<>>, <<"J", "P", " ", "s", "t", "a", "r", "t", " ", ";", " ", "g", "o">>, <<"s", "p", "r", "i", "t", "e", " ", "s">>,
      <<"0", "x", "F", "F">>, <<"e", "n", "d", "s", "p", "r", "i", "t", "e", " ", ";", " ", "d", "o", "n", "e">>, <<"e", "n", "d", "s", "p", "r", "i", "t", "e">> }

\* Lines with offset markers: before a token, twice and three times on a
\* line, before a trailing comment, alone, and before text that is no number
OffsetLines ==
    { <<"L", "D", " ", "I", ",", " ", "#", "1", " ", "V", "0">>, <<"L", "D", " ", "#", "0", " ", "#", "1">>, <<"#", "1", " ", "#", "2", " ", "#", "3">>, <<"J", "P", " ", "#", "2">>, <<"J", "P", " ", "#", "2", " ", ";", " ", "g", "o">>, <<"L", "D", " ", "I", ",", " ", "#", "1", "0">>,
      <<"#">>, <<"J", "P", " ", "#", "x">>, <<"C", "L", "S">> }

\* Label declarations whose name begins with a keyword, and their uses
PrefixLines == { <<"a", "l", "i", "a", "s", "e", "s", ":">>, <<"s", "p", "r", "i", "t", "e", "s", ":">>, <<"J", "P", " ", "a", "l", "i", "a", "s", "e", "s">>, <<"J", "P", " ", "s", "p", "r", "i", "t", "e", "s">>, <<"C", "L", "S">> }

PreStart(src) ==
    /\ unprocessed = src
    /\ lines = <<>>
    /\ prev_lines = <<>>
    /\ pc = "clean"
    /\ result = Pending
    /\ alias_map = <<>>
    /\ label_map = <<>>
    /\ mnemonic = <<>>
    /\ operands = <<>>
    /\ inst = <<>>
    /\ opcode = Pending

Init ==
    \/ \E k \in 0..MaxLines : \E src \in [1..k -> SourceLines] : PreStart(src)
    \/ \E n \in 0..MaxSpriteBytes, before \in BeforeSprite, after \in AfterSprite :
          PreStart(before \o SpriteBlock(n) \o after)
    \/ \E n \in 0..MaxSpriteBytes, before \in BeforeSprite :
          PreStart(before \o SubSeq(SpriteBlock(n), 1, n + 1))
    \/ \E k \in 1..MaxLines : \E src \in [1..k -> SymbolLines] : PreStart(src)
    \/ \E k \in 1..MaxLines : \E src \in [1..k -> RawLines] : PreStart(src)
    \/ \E k \in 1..MaxLines : \E src \in [1..k -> OffsetLines] : PreStart(src)
    \/ \E k \in 1..MaxLines : \E src \in [1..k -> PrefixLines] : PreStart(src)
    \/ \E k \in 1..MaxMixedLines, before \in BeforeSprite :
          \E data \in [1..k -> MixedSpriteData] :
             PreStart(before \o << <<"s", "p", "r", "i", "t", "e", " ", "s">> >> \o data \o << <<"e", "n", "d", "s", "p", "r", "i", "t", "e">> >>)

\* A pass returned an error through `?`, or panicked
Fail(r) ==
    /\ result' = IF r.kind = "Panic" THEN Panic ELSE Err(r.err)
    /\ lines' = <<>>
    /\ pc' = "done"

\* preprocess: the cleaning of the input
Clean ==
    /\ pc = "clean"
    /\ lines' = clean(unprocessed)
    /\ prev_lines' = unprocessed
    /\ pc' = "aliases"
    /\ UNCHANGED <<unprocessed, result, alias_map, label_map>>
    /\ UNCHANGED asm_vars

\* preprocess: lines = evaluate_aliases(lines)?
EvaluateAliases ==
    /\ pc = "aliases"
    /\ LET r == evaluate_aliases(lines) IN
       IF r.kind = "Ok"
       THEN /\ lines' = r.lines
            /\ alias_map' = r.map
            /\ pc' = "sprites"
            /\ UNCHANGED result
       ELSE Fail(r) /\ UNCHANGED alias_map
    /\ prev_lines' = lines
    /\ UNCHANGED <<unprocessed, label_map>>
    /\ UNCHANGED asm_vars

\* preprocess: lines = evaluate_sprites(lines)?
EvaluateSprites ==
    /\ pc = "sprites"
    /\ LET r == evaluate_sprites(lines) IN
       IF r.kind = "Ok"
       THEN /\ lines' = r.lines
            /\ pc' = "offsets"
            /\ UNCHANGED result
       ELSE Fail(r)
    /\ prev_lines' = lines
    /\ UNCHANGED <<unprocessed, alias_map, label_map>>
    /\ UNCHANGED asm_vars

\* preprocess: lines = evaluate_memory_offsets(lines)?
EvaluateMemoryOffsets ==
    /\ pc = "offsets"
    /\ LET r == evaluate_memory_offsets(lines) IN
       IF r.kind = "Ok"
       THEN /\ lines' = r.lines
            /\ pc' = "labels"
            /\ UNCHANGED result
       ELSE Fail(r)
    /\ prev_lines' = lines
    /\ UNCHANGED <<unprocessed, alias_map, label_map>>
    /\ UNCHANGED asm_vars

\* preprocess: evaluate_labels(lines)
EvaluateLabels ==
    /\ pc = "labels"
    /\ LET r == evaluate_labels(lines) IN
       IF r.kind = "Ok"
       THEN /\ lines' = r.lines
            /\ label_map' = r.map
            /\ result' = Ok(0)
            /\ pc' = "done"
       ELSE Fail(r) /\ UNCHANGED label_map
    /\ prev_lines' = lines
    /\ UNCHANGED <<unprocessed, alias_map>>
    /\ UNCHANGED asm_vars

Next ==
    \/ Clean
    \/ EvaluateAliases
    \/ EvaluateSprites
    \/ EvaluateMemoryOffsets
    \/ EvaluateLabels

Spec == Init /\ [][Next]_vars

---------------------------------------------------------------------------
(* Properties of the preprocessor, checked under Spec *)

\* A label declaration line: a line that ends in ':'
IsLabelLine(l) == ends_with(l, <<":">>)

\* The number of lines before the i-th (1-based) that declare no label
InstructionsBefore(ls, i) == Cardinality({j \in 1..(i - 1) : ~IsLabelLine(ls[j])})

\* The Label Pass has run and succeeded: prev_lines is its input
LabelsDone == pc = "done" /\ result.kind = "Ok"

\* The Offset Pass has run and succeeded: prev_lines is its input
OffsetsDone == pc = "labels"

\* C1: after a successful Label Pass every declared label, one synthesized
\* from `sprite NAME` included, is mapped to 0x200 + 2 * (the number of
\* non-label lines before its declaration in the pass's input), which is
\* the address of the final instruction that follows it: the final list
\* holds exactly the non-label lines.
C1_LabelAddresses ==
    LabelsDone =>
        /\ Len(lines) = InstructionsBefore(prev_lines, Len(prev_lines) + 1)
        /\ \A i \in 1..Len(prev_lines) :
              IsLabelLine(prev_lines[i]) =>
                  LET name == trim_end_matches(prev_lines[i], ":") IN
                  /\ name \in DOMAIN label_map
                  /\ label_map[name] = \h200 + 2 * InstructionsBefore(prev_lines, i)

\* C1 happens: a label, a sprite's label after one instruction, and a label
\* after the last instruction
C1_Witness ==
    /\ LabelsDone
    /\ DOMAIN label_map = {<<"a">>, <<"s">>, <<"b">>}
    /\ label_map[<<"a">>] = \h200
    /\ label_map[<<"s">>] = \h202
    /\ label_map[<<"b">>] = \h200 + 2 * Len(lines)
    /\ Len(lines) = 4

\* A line that ends with its one marker `#N`
EndsWithMarker(l) ==
    /\ find(l, "#") >= 0
    /\ from_str_radix(Slice(l, find(l, "#") + 1, Len(l)), 10, OffsetLimit) >= 0

\* The N of that marker
MarkerOffset(l) == from_str_radix(Slice(l, find(l, "#") + 1, Len(l)), 10, OffsetLimit)

\* C2: in a program with no label declarations and k lines when the Offset
\* Pass runs, a marker #N is replaced by the decimal of 0x200 + 2 * k + N.
C2_OffsetsFromBase ==
    (OffsetsDone /\ \A i \in 1..Len(prev_lines) : ~IsLabelLine(prev_lines[i])) =>
        \A i \in 1..Len(prev_lines) :
            EndsWithMarker(prev_lines[i]) =>
                lines[i] = Slice(prev_lines[i], 0, find(prev_lines[i], "#")) \o
                           to_string(\h200 + 2 * Len(prev_lines) + MarkerOffset(prev_lines[i]))

\* C3: label declaration lines do not count towards the address #N is
\* relative to: the program with a label declaration inserted in front
\* preprocesses to the same lines.
C3_LabelLinesDoNotCount ==
    LabelsDone =>
        LET labelled == preprocess(<< <<"z", "z", ":">> >> \o unprocessed) IN
        labelled.kind = "Ok" /\ labelled.lines = lines

---------------------------------------------------------------------------
(* Properties of the encoder, checked under SpecAsm.  They are stated on   *)
(* what the tokens of the line denote: operands[i].k and operands[i].v.    *)

Assembled == opcode # Pending

Kinds == [i \in 1..Len(operands) |-> operands[i].k]

AllOperandsParse == \A i \in 1..Len(operands) : operands[i].k # "Error"

\* The line's first token is mnemonic m in upper or in lower case
Spelled(m) == mnemonic = m \/ mnemonic = ToLower(m)

\* The register index or the number the i-th operand denotes
V(i) == operands[i].v

\* C4: DRW Vx, Vy, n encodes to 0xD000 + (x << 8) + (y << 4) + n for every
\* nibble n, and a third operand above 15 returns InvalidArg.
C4_DrwEncoding ==
    (Assembled /\ Spelled(<<"D", "R", "W">>) /\ Kinds = <<"Register", "Register", "Numeric">>) =>
        opcode = IF V(3) <= 15
                 THEN Ok(\hD000 + V(1) * 256 + V(2) * 16 + V(3))
                 ELSE Err("InvalidArg")

\* The operand counts the instruction table allows for mnemonic m
AllowedCounts(m) ==
    IF m \in {<<"C", "L", "S">>, <<"R", "E", "T">>} THEN {0}
    ELSE IF m \in {<<"S", "Y", "S">>, <<"C", "A", "L", "L">>, <<"S", "K", "P">>, <<"S", "K", "N", "P">>} THEN {1}
    ELSE IF m \in {<<"J", "P">>, <<"S", "H", "R">>, <<"S", "H", "L">>} THEN {1, 2}
    ELSE IF m = <<"D", "R", "W">> THEN {3}
    ELSE {2}

\* The operand shapes the instruction table accepts for mnemonic m
AcceptedShape(m, ks) ==
    IF m \in {<<"C", "L", "S">>, <<"R", "E", "T">>} THEN ks = <<>>
    ELSE IF m \in {<<"S", "Y", "S">>, <<"C", "A", "L", "L">>} THEN ks = <<"Numeric">>
    ELSE IF m = <<"J", "P">>
    THEN ks = <<"Numeric">> \/ (ks = <<"Register", "Numeric">> /\ V(1) = 0)
    ELSE IF m = <<"L", "D">>
    THEN ks \in { <<"Register", "Register">>, <<"Register", "Numeric">>,
                  <<"IPointer", "Numeric">>, <<"Register", "DelayTimer">>,
                  <<"Register", "AnyKey">>, <<"DelayTimer", "Register">>,
                  <<"SoundTimer", "Register">>, <<"Sprite", "Register">>,
                  <<"Bcd", "Register">>, <<"IRange", "Register">>,
                  <<"Register", "IRange">> }
    ELSE IF m \in {<<"S", "E">>, <<"S", "N", "E">>}
    THEN ks \in {<<"Register", "Numeric">>, <<"Register", "Register">>}
    ELSE IF m = <<"A", "D", "D">>
    THEN ks \in { <<"Register", "Numeric">>, <<"Register", "Register">>,
                  <<"IPointer", "Register">> }
    ELSE IF m \in {<<"O", "R">>, <<"A", "N", "D">>, <<"X", "O", "R">>, <<"S", "U", "B">>, <<"S", "U", "B", "N">>}
    THEN ks = <<"Register", "Register">>
    ELSE IF m \in {<<"S", "H", "R">>, <<"S", "H", "L">>}
    THEN ks \in {<<"Register">>, <<"Register", "Register">>}
    ELSE IF m = <<"R", "N", "D">> THEN ks = <<"Register", "Numeric">>
    ELSE IF m = <<"D", "R", "W">> THEN ks = <<"Register", "Register", "Numeric">>
    ELSE ks = <<"Register">>

\* C5: a line with an allowed operand count whose operands each parse but
\* match none of the mnemonic's shapes returns InvalidArg, and the encoder
\* never aborts.
C5_ShapeMismatchIsInvalidArg ==
    (Assembled /\ mnemonic \in Mnemonics /\ AllOperandsParse
        /\ Len(operands) \in AllowedCounts(mnemonic)
        /\ ~AcceptedShape(mnemonic, Kinds)) =>
        opcode = Err("InvalidArg")

\* C6: a mnemonic in any letter case encodes as its upper-case spelling.
C6_CaseInsensitive ==
    (Assembled /\ ToUpper(mnemonic) \in Mnemonics) =>
        opcode = assemble_instruction(
                    ToUpper(mnemonic) \o Slice(inst, Len(mnemonic), Len(inst)))

\* The most operands the instruction table allows for mnemonic m
MostOperands(m) ==
    IF m \in {<<"C", "L", "S">>, <<"R", "E", "T">>} THEN 0
    ELSE IF m \in {<<"S", "Y", "S">>, <<"C", "A", "L", "L">>, <<"S", "K", "P">>, <<"S", "K", "N", "P">>} THEN 1
    ELSE IF m = <<"D", "R", "W">> THEN 3
    ELSE 2

\* C7: a line with more operand tokens than the mnemonic's maximum returns
\* ExtraArgs, whatever the tokens are.
C7_ExtraArgs ==
    (Assembled /\ mnemonic \in Mnemonics /\ Len(operands) > MostOperands(mnemonic)) =>
        opcode = Err("ExtraArgs")

\* C8: the eleven LD shapes encode to 8xy0, 6xkk, Annn, Fx07, Fx0A, Fx15,
\* Fx18, Fx29, Fx33, Fx55, Fx65 (kk <= 0xFF, nnn <= 0xFFF), and every other
\* pair of operands, a number out of range included, returns InvalidArg.
C8_LdShapes ==
    (Assembled /\ Spelled(<<"L", "D">>) /\ Len(operands) = 2 /\ AllOperandsParse) =>
        opcode =
            IF Kinds = <<"Register", "Register">> THEN Ok(\h8000 + V(1) * 256 + V(2) * 16)
            ELSE IF Kinds = <<"Register", "Numeric">> /\ V(2) <= \hFF
            THEN Ok(\h6000 + V(1) * 256 + V(2))
            ELSE IF Kinds = <<"IPointer", "Numeric">> /\ V(2) <= \hFFF
            THEN Ok(\hA000 + V(2))
            ELSE IF Kinds = <<"Register", "DelayTimer">> THEN Ok(\hF007 + V(1) * 256)
            ELSE IF Kinds = <<"Register", "AnyKey">> THEN Ok(\hF00A + V(1) * 256)
            ELSE IF Kinds = <<"DelayTimer", "Register">> THEN Ok(\hF015 + V(2) * 256)
            ELSE IF Kinds = <<"SoundTimer", "Register">> THEN Ok(\hF018 + V(2) * 256)
            ELSE IF Kinds = <<"Sprite", "Register">> THEN Ok(\hF029 + V(2) * 256)
            ELSE IF Kinds = <<"Bcd", "Register">> THEN Ok(\hF033 + V(2) * 256)
            ELSE IF Kinds = <<"IRange", "Register">> THEN Ok(\hF055 + V(2) * 256)
            ELSE IF Kinds = <<"Register", "IRange">> THEN Ok(\hF065 + V(1) * 256)
            ELSE Err("InvalidArg")

\* C8 happens: LD V5, [I] was encoded
C8_Witness ==
    /\ Spelled(<<"L", "D">>)
    /\ Kinds = <<"Register", "IRange">>
    /\ opcode = Ok(\hF565)

\* C9: SYS nnn, CALL nnn, JP nnn and JP V0, nnn encode to 0nnn, 2nnn, 1nnn
\* and Bnnn; JP Vx, nnn with x # 0 and every address above 0xFFF return
\* InvalidArg.
C9_AddressOpcodes ==
    (Assembled /\ AllOperandsParse) =>
        /\ (Kinds = <<"Numeric">> /\ (Spelled(<<"S", "Y", "S">>) \/ Spelled(<<"C", "A", "L", "L">>) \/ Spelled(<<"J", "P">>))) =>
              opcode = IF V(1) > \hFFF THEN Err("InvalidArg")
                       ELSE IF Spelled(<<"S", "Y", "S">>) THEN Ok(\h0000 + V(1))
                       ELSE IF Spelled(<<"C", "A", "L", "L">>) THEN Ok(\h2000 + V(1))
                       ELSE Ok(\h1000 + V(1))
        /\ (Kinds = <<"Register", "Numeric">> /\ Spelled(<<"J", "P">>)) =>
              opcode = IF V(1) # 0 \/ V(2) > \hFFF THEN Err("InvalidArg")
                       ELSE Ok(\hB000 + V(2))

\* C9 happens: JP V0, 0x300 was encoded
C9_Witness ==
    /\ Spelled(<<"J", "P">>)
    /\ Kinds = <<"Register", "Numeric">>
    /\ V(1) = 0
    /\ opcode = Ok(\hB300)

\* The opcode C10 gives for the line, or -1 when C10 says nothing of it
C10_Opcode ==
    LET RegByte == Kinds = <<"Register", "Numeric">> /\ V(2) <= \hFF
        RegReg == Kinds = <<"Register", "Register">>
        Reg == Kinds = <<"Register">>
        xkk == V(1) * 256 + V(2)
        xy == V(1) * 256 + V(2) * 16
    IN
    IF Spelled(<<"S", "E">>) /\ RegByte THEN \h3000 + xkk
    ELSE IF Spelled(<<"S", "E">>) /\ RegReg THEN \h5000 + xy
    ELSE IF Spelled(<<"S", "N", "E">>) /\ RegByte THEN \h4000 + xkk
    ELSE IF Spelled(<<"S", "N", "E">>) /\ RegReg THEN \h9000 + xy
    ELSE IF Spelled(<<"A", "D", "D">>) /\ RegByte THEN \h7000 + xkk
    ELSE IF Spelled(<<"A", "D", "D">>) /\ RegReg THEN \h8004 + xy
    ELSE IF Spelled(<<"A", "D", "D">>) /\ Kinds = <<"IPointer", "Register">> THEN \hF01E + V(2) * 256
    ELSE IF Spelled(<<"O", "R">>) /\ RegReg THEN \h8001 + xy
    ELSE IF Spelled(<<"A", "N", "D">>) /\ RegReg THEN \h8002 + xy
    ELSE IF Spelled(<<"X", "O", "R">>) /\ RegReg THEN \h8003 + xy
    ELSE IF Spelled(<<"S", "U", "B">>) /\ RegReg THEN \h8005 + xy
    ELSE IF Spelled(<<"S", "U", "B", "N">>) /\ RegReg THEN \h8007 + xy
    ELSE IF Spelled(<<"S", "H", "R">>) /\ RegReg THEN \h8006 + xy
    ELSE IF Spelled(<<"S", "H", "R">>) /\ Reg THEN \h8006 + V(1) * 256
    ELSE IF Spelled(<<"S", "H", "L">>) /\ RegReg THEN \h800E + xy
    ELSE IF Spelled(<<"S", "H", "L">>) /\ Reg THEN \h800E + V(1) * 256
    ELSE IF Spelled(<<"R", "N", "D">>) /\ RegByte THEN \hC000 + xkk
    ELSE IF Spelled(<<"S", "K", "P">>) /\ Reg THEN \hE09E + V(1) * 256
    ELSE IF Spelled(<<"S", "K", "N", "P">>) /\ Reg THEN \hE0A1 + V(1) * 256
    ELSE -1

\* C10: SE, SNE, ADD, OR, AND, XOR, SUB, SUBN, SHR, SHL, RND, SKP and SKNP
\* encode to 3xkk/5xy0, 4xkk/9xy0, 7xkk/8xy4/Fx1E, 8xy1, 8xy2, 8xy3, 8xy5,
\* 8xy7, 8xy6, 8xyE (y = 0 without a second register), Cxkk, Ex9E, ExA1.
C10_ArithmeticOpcodes ==
    (Assembled /\ C10_Opcode >= 0) => opcode = Ok(C10_Opcode)

\* C10 happens: SUBN V3, VA was encoded
C10_Witness ==
    /\ Spelled(<<"S", "U", "B", "N">>)
    /\ Kinds = <<"Register", "Register">>
    /\ opcode = Ok(\h83A7)

---------------------------------------------------------------------------
(* Properties of the Sprite Pass, checked under Spec *)

\* The errors each pass returns
AliasErrors == {"TooManyAliasArgs", "TooFewAliasArgs", "ReservedAlias", "ReusedAlias"}
SpriteErrors == { "TooManySpriteArgs", "TooFewSpriteArgs", "UnclosedSprite",
                  "OversizedSprite", "InvalidSpriteByte" }
LabelErrors == {"InvalidLabel", "ReservedLabel", "ReusedLabel"}

\* The pass that ran last succeeded: prev_lines is its input, lines its output
AliasesDone == pc = "sprites"
SpritesDone == pc = "offsets"

\* The pass that ran last failed: prev_lines is its input
AliasesFailed == pc = "done" /\ result.kind = "Err" /\ result.err \in AliasErrors
SpritesFailed ==
    pc = "done" /\ (result.kind = "Panic" \/
                    (result.kind = "Err" /\ result.err \in SpriteErrors))
LabelsFailed == pc = "done" /\ result.kind = "Err" /\ result.err \in LabelErrors

\* The byte a data line of the model's sprites denotes
ByteOf(l) ==
    IF l = <<"0", "x", "F", "F">> THEN 255
    ELSE IF l = <<"0", "x", "0", "F">> THEN 15
    ELSE IF l = <<"0", "b", "1", "0", "1">> THEN 5
    ELSE IF l = <<"1", "2">> THEN 12
    ELSE -1

\* ls holds one sprite declaration, `sprite NAME` at s (1-based), and e is
\* the first `endsprite` line after it
IsBlock(ls, s, e) ==
    /\ s < e
    /\ {i \in 1..Len(ls) : starts_with(ls[i], <<"s", "p", "r", "i", "t", "e">>)} = {s}
    /\ Len(split_whitespace(ls[s])) = 2
    /\ ls[e] = <<"e", "n", "d", "s", "p", "r", "i", "t", "e">>
    /\ \A j \in (s + 1)..(e - 1) : ls[j] # <<"e", "n", "d", "s", "p", "r", "i", "t", "e">>

\* A block whose data lines are all bytes
IsWellFormedBlock(ls, s, e) ==
    IsBlock(ls, s, e) /\ \A j \in (s + 1)..(e - 1) : ByteOf(ls[j]) >= 0

\* The j-th 16-bit word of the block: bytes 2j-1 and 2j, big-endian, 0x00
\* in the low byte when the block ends on an odd byte
WordOf(ls, s, e, j) ==
    ByteOf(ls[s + 2 * j - 1]) * 256 +
    (IF s + 2 * j < e THEN ByteOf(ls[s + 2 * j]) ELSE 0)

\* C11: a well-formed sprite block of n <= 15 data bytes is replaced by the
\* label line NAME: and ceil(n/2) raw lines, the j-th a 0x-prefixed literal
\* the encoder encodes to (b[2j-1] << 8) + b[2j] (0x00 for a missing low
\* byte); the lines outside the block keep their content and order.
C11_SpritePacking ==
    \A s \in 1..Len(prev_lines), e \in 1..Len(prev_lines) :
        ((SpritesDone \/ SpritesFailed) /\ IsWellFormedBlock(prev_lines, s, e)
            /\ e - s - 1 <= 15) =>
            LET n == e - s - 1
                words == (n + 1) \div 2
            IN
            /\ SpritesDone
            /\ Len(lines) = Len(prev_lines) - (n + 2) + 1 + words
            /\ SubSeq(lines, 1, s - 1) = SubSeq(prev_lines, 1, s - 1)
            /\ lines[s] = Append(split_whitespace(prev_lines[s])[2], ":")
            /\ \A j \in 1..words :
                  /\ starts_with(lines[s + j], <<"0", "x">>)
                  /\ assemble_instruction(lines[s + j]) = Ok(WordOf(prev_lines, s, e, j))
            /\ SubSeq(lines, s + words + 1, Len(lines)) =
                   SubSeq(prev_lines, e + 1, Len(prev_lines))

\* C11 happens: a block of fifteen bytes between other lines became the
\* label and eight words, the last one padded
C11_Witness ==
    /\ SpritesDone
    /\ Len(prev_lines) = 21
    /\ IsWellFormedBlock(prev_lines, 3, 19)
    /\ Len(lines) = 13
    /\ lines[3] = <<"s", ":">>
    /\ lines[4] = <<"0", "x", "F", "F", "0", "F">>
    /\ lines[11] = <<"0", "x", "5", "0", "0">>
    /\ lines[13] = <<"b", ":">>

\* ls holds one sprite declaration, `sprite NAME` at s
IsOnlyDeclaration(ls, s) ==
    /\ {i \in 1..Len(ls) : starts_with(ls[i], <<"s", "p", "r", "i", "t", "e">>)} = {s}
    /\ Len(split_whitespace(ls[s])) = 2

\* The lines after s that are `endsprite`
Closers(ls, s) == {e \in (s + 1)..Len(ls) : ls[e] = <<"e", "n", "d", "s", "p", "r", "i", "t", "e">>}

\* The first of them
Closer(ls, s) == CHOOSE e \in Closers(ls, s) : \A f \in Closers(ls, s) : e <= f

\* C12: a closed sprite block is accepted with 15 or fewer byte lines and
\* returns OversizedSprite with 16 or more data lines; a declaration with
\* no endsprite line after it returns UnclosedSprite.
C12_SpriteSize ==
    \A s \in 1..Len(prev_lines) :
        ((SpritesDone \/ SpritesFailed) /\ IsOnlyDeclaration(prev_lines, s)) =>
            IF Closers(prev_lines, s) = {}
            THEN pc = "done" /\ result = Err("UnclosedSprite")
            ELSE LET e == Closer(prev_lines, s) IN
                 /\ e - s - 1 >= 16 => (pc = "done" /\ result = Err("OversizedSprite"))
                 /\ (e - s - 1 <= 15 /\ IsWellFormedBlock(prev_lines, s, e)) => SpritesDone

\* C12 happens: a closed block of exactly sixteen data lines was refused
C12_Witness ==
    /\ SpritesFailed
    /\ result = Err("OversizedSprite")
    /\ \E s \in 1..Len(prev_lines) :
          /\ IsOnlyDeclaration(prev_lines, s)
          /\ Closers(prev_lines, s) # {}
          /\ Closer(prev_lines, s) - s - 1 = 16

---------------------------------------------------------------------------
(* Properties of the Alias Pass and the Label Pass, checked under Spec *)

\* A token without its trailing commas
Bare(token) == trim_end_matches(token, ",")

\* An alias declaration: `alias NAME VALUE`
IsAliasLine(l) ==
    LET tokens == split_whitespace(l) IN Len(tokens) = 3 /\ tokens[1] = <<"a", "l", "i", "a", "s">>

\* The names the declarations of ls declare, and the value declared for one
AliasNames(ls) ==
    {Bare(split_whitespace(ls[i])[2]) : i \in {j \in 1..Len(ls) : IsAliasLine(ls[j])}}

AliasValue(ls, name) ==
    LET i == CHOOSE j \in 1..Len(ls) :
                 IsAliasLine(ls[j]) /\ Bare(split_whitespace(ls[j])[2]) = name
    IN split_whitespace(ls[i])[3]

\* The lines of ls that are not alias declarations, in order
NotAliasLine(l) == ~IsAliasLine(l)

\* C13: after a successful Alias Pass no declaration remains and, in every
\* other line, before or after the declaration, each token that
\* comma-trimmed is a declared name is replaced by the declared value, once;
\* every other token stays, and a line with no such token is unchanged.
\* `alias FOO V2` / `LD FOO, 0x10` leaves one line, which encodes to 0x6210.
C13_AliasReplacement ==
    AliasesDone =>
        LET rest == SelectSeq(prev_lines, NotAliasLine)
            names == AliasNames(prev_lines)
        IN
        /\ Len(lines) = Len(rest)
        /\ \A i \in 1..Len(lines) :
              LET old == split_whitespace(rest[i])
                  new == split_whitespace(lines[i])
              IN
              /\ ~IsAliasLine(lines[i])
              /\ (\A k \in 1..Len(old) : Bare(old[k]) \notin names) => lines[i] = rest[i]
              /\ Len(new) = Len(old)
              /\ \A k \in 1..Len(old) :
                    IF Bare(old[k]) \in names
                    THEN new[k] = AliasValue(prev_lines, Bare(old[k]))
                    ELSE Bare(new[k]) = Bare(old[k])
        /\ prev_lines = << <<"a", "l", "i", "a", "s", " ", "F", "O", "O", " ", "V", "2">>, <<"L", "D", " ", "F", "O", "O", ",", " ", "0", "x", "1", "0">> >> =>
              (Len(lines) = 1 /\ assemble_instruction(lines[1]) = Ok(\h6210))

\* C13 happens: a use before its declaration, of an alias whose value names
\* another alias, next to a token that only contains a name
C13_Witness ==
    /\ AliasesDone
    /\ prev_lines = << <<"L", "D", " ", "q", ",", " ", "F", "O", "O", "D">>, <<"a", "l", "i", "a", "s", " ", "q", " ", "F", "O", "O">>, <<"a", "l", "i", "a", "s", " ", "F", "O", "O", " ", "V", "2">> >>
    /\ lines = << <<"L", "D", " ", "F", "O", "O", " ", "F", "O", "O", "D">> >>

\* The names the label declarations of ls declare
LabelNames(ls) ==
    {trim_end_matches(ls[i], ":") : i \in {j \in 1..Len(ls) : IsLabelLine(ls[j])}}

\* The address of the label declared at line i of ls
AddressAt(ls, i) == \h200 + 2 * InstructionsBefore(ls, i)

\* The token that stands for a use of the label name
LabelToken(ls, name) ==
    LET i == CHOOSE j \in 1..Len(ls) :
                 IsLabelLine(ls[j]) /\ trim_end_matches(ls[j], ":") = name
    IN format_lower_hex(AddressAt(ls, i))

NotLabelLine(l) == ~IsLabelLine(l)

\* After a successful Label Pass no declaration remains and the tokens of
\* every other line are those it had, each use of a label replaced by the
\* 0x-prefixed hexadecimal of the label's address
LabelTokensReplaced ==
    LabelsDone =>
        LET rest == SelectSeq(prev_lines, NotLabelLine)
            names == LabelNames(prev_lines)
        IN
        /\ Len(lines) = Len(rest)
        /\ \A i \in 1..Len(lines) :
              LET old == split_whitespace(rest[i])
                  new == split_whitespace(lines[i])
              IN
              /\ ~IsLabelLine(lines[i])
              /\ Len(new) = Len(old)
              /\ \A k \in 1..Len(old) :
                    IF Bare(old[k]) \in names
                    THEN new[k] = LabelToken(prev_lines, Bare(old[k]))
                    ELSE new[k] = old[k]

\* C14: after a successful Label Pass no label declaration remains and each
\* token that comma-trimmed is a declared label, declared before or after
\* its use, is replaced by 0x and the hexadecimal of the label's address,
\* the other tokens kept in order; `start:` / `JP start` yields the single
\* line `JP 0x200`, which encodes to 0x1200.
C14_LabelReplacement ==
    /\ LabelTokensReplaced
    /\ (LabelsDone /\ prev_lines = << <<"s", "t", "a", "r", "t", ":">>, <<"J", "P", " ", "s", "t", "a", "r", "t">> >>) =>
           (lines = << <<"J", "P", " ", "0", "x", "2", "0", "0">> >> /\ assemble_instruction(lines[1]) = Ok(\h1200))

\* The reserved word set: the mnemonics and the three keywords
ReservedNames == Mnemonics \cup {<<"a", "l", "i", "a", "s">>, <<"s", "p", "r", "i", "t", "e">>, <<"e", "n", "d", "s", "p", "r", "i", "t", "e">>}

\* What is wrong with line i of the Alias Pass's input ls, "" if nothing
AliasOffence(ls, i) ==
    LET tokens == split_whitespace(ls[i]) IN
    IF tokens = <<>> \/ tokens[1] # <<"a", "l", "i", "a", "s">> THEN ""
    ELSE IF Len(tokens) > 3 THEN "TooManyAliasArgs"
    ELSE IF Len(tokens) < 3 THEN "TooFewAliasArgs"
    ELSE IF Bare(tokens[2]) \in ReservedNames THEN "ReservedAlias"
    ELSE IF \E j \in 1..(i - 1) :
                IsAliasLine(ls[j]) /\ Bare(split_whitespace(ls[j])[2]) = Bare(tokens[2])
    THEN "ReusedAlias"
    ELSE ""

\* What is wrong with line i of the Label Pass's input ls, "" if nothing
LabelOffence(ls, i) ==
    LET name == trim_end_matches(ls[i], ":") IN
    IF ~IsLabelLine(ls[i]) THEN ""
    ELSE IF \E k \in 1..Len(name) : IsWhitespace(name[k]) THEN "InvalidLabel"
    ELSE IF name \in ReservedNames THEN "ReservedLabel"
    ELSE IF \E j \in 1..(i - 1) :
                IsLabelLine(ls[j]) /\ trim_end_matches(ls[j], ":") = name
    THEN "ReusedLabel"
    ELSE ""

\* C15: a second declaration of a declared alias makes the Alias Pass fail
\* with ReusedAlias and a second declaration of a declared label makes the
\* Label Pass fail with ReusedLabel (when no line before it is at fault);
\* the pass never succeeds on an input that declares a name twice.
C15_UniqueKeys ==
    /\ (AliasesDone \/ AliasesFailed) =>
          \A j \in 1..Len(prev_lines) :
              AliasOffence(prev_lines, j) = "ReusedAlias" =>
                  /\ AliasesFailed
                  /\ (\A i \in 1..(j - 1) : AliasOffence(prev_lines, i) = "") =>
                         result = Err("ReusedAlias")
    /\ (LabelsDone \/ LabelsFailed) =>
          \A j \in 1..Len(prev_lines) :
              LabelOffence(prev_lines, j) = "ReusedLabel" =>
                  /\ LabelsFailed
                  /\ (\A i \in 1..(j - 1) : LabelOffence(prev_lines, i) = "") =>
                         result = Err("ReusedLabel")

\* C15 happens: FOO was declared a second time with another value
C15_Witness ==
    /\ AliasesFailed
    /\ prev_lines = << <<"a", "l", "i", "a", "s", " ", "F", "O", "O", " ", "V", "2">>, <<"L", "D", " ", "F", "O", "O", ",", " ", "0", "x", "1", "0">>, <<"a", "l", "i", "a", "s", " ", "F", "O", "O", " ", "V", "3">> >>
    /\ result = Err("ReusedAlias")

\* C16: an alias or label declaration whose name is a mnemonic or one of
\* the keywords alias, sprite, endsprite is rejected with ReservedAlias
\* (ReservedLabel), and no such name ever enters the alias or label table.
C16_ReservedWords ==
    /\ DOMAIN alias_map \cap ReservedNames = {}
    /\ DOMAIN label_map \cap ReservedNames = {}
    /\ (AliasesDone \/ AliasesFailed) =>
          \A j \in 1..Len(prev_lines) :
              (/\ AliasOffence(prev_lines, j) = "ReservedAlias"
               /\ \A i \in 1..(j - 1) : AliasOffence(prev_lines, i) = "") =>
                  result = Err("ReservedAlias")
    /\ (LabelsDone \/ LabelsFailed) =>
          \A j \in 1..Len(prev_lines) :
              (/\ LabelOffence(prev_lines, j) = "ReservedLabel"
               /\ \A i \in 1..(j - 1) : LabelOffence(prev_lines, i) = "") =>
                  result = Err("ReservedLabel")

---------------------------------------------------------------------------
(* Properties of preprocess as a whole, checked under Spec *)

\* The cleaning has run: lines is what the Alias Pass receives
Cleaned == pc = "aliases"

\* C17: every line handed to the Alias Pass is non-empty, holds no `;` and
\* has no leading or trailing whitespace, a line whose trailing comment was
\* cut included; so `start: ; entry` declares the label start.
C17_CleanLines ==
    /\ Cleaned =>
          \A i \in 1..Len(lines) :
              /\ lines[i] # <<>>
              /\ find(lines[i], ";") < 0
              /\ trim(lines[i]) = lines[i]
    /\ (LabelsDone /\ unprocessed = << <<"s", "t", "a", "r", "t", ":", " ", ";", " ", "e", "n", "t", "r", "y">>, <<"J", "P", " ", "s", "t", "a", "r", "t", " ", ";", " ", "g", "o">> >>) =>
          <<"s", "t", "a", "r", "t">> \in DOMAIN label_map

\* The error the Alias Pass has for line i of its input ls, "" if none
AliasRejects(ls, i) ==
    LET tokens == split_whitespace(ls[i]) IN
    IF ~starts_with(ls[i], <<"a", "l", "i", "a", "s">>) THEN ""
    ELSE IF Len(tokens) > 3 THEN "TooManyAliasArgs"
    ELSE IF Len(tokens) < 3 THEN "TooFewAliasArgs"
    ELSE IF Bare(tokens[2]) \in RESERVED_WORDS THEN "ReservedAlias"
    ELSE IF \E j \in 1..(i - 1) :
                /\ starts_with(ls[j], <<"a", "l", "i", "a", "s">>)
                /\ Len(split_whitespace(ls[j])) = 3
                /\ Bare(split_whitespace(ls[j])[2]) = Bare(tokens[2])
    THEN "ReusedAlias"
    ELSE ""

\* The error the Label Pass has for line i of its input ls, "" if none
LabelRejects(ls, i) ==
    LET name == trim_end_matches(ls[i], ":") IN
    IF ~IsLabelLine(ls[i]) THEN ""
    ELSE IF \E k \in 1..Len(name) : IsWhitespace(name[k]) THEN "InvalidLabel"
    ELSE IF name \in RESERVED_WORDS THEN "ReservedLabel"
    ELSE IF \E j \in 1..(i - 1) :
                IsLabelLine(ls[j]) /\ trim_end_matches(ls[j], ":") = name
    THEN "ReusedLabel"
    ELSE ""

AliasRejected(ls) == {i \in 1..Len(ls) : AliasRejects(ls, i) # ""}
LabelRejected(ls) == {i \in 1..Len(ls) : LabelRejects(ls, i) # ""}

\* The least element of a non-empty set of line numbers
Earliest(S) == CHOOSE i \in S : \A j \in S : i <= j

\* C18 as claimed: preprocess returns the error of the earliest offending
\* line of the source, whichever pass detects it, and no line list.
C18_EarliestLine ==
    pc = "done" =>
        LET src == clean(unprocessed)
            offending == AliasRejected(src) \cup LabelRejected(src)
        IN offending # {} =>
              /\ lines = <<>>
              /\ result = Err(IF AliasRejects(src, Earliest(offending)) # ""
                              THEN AliasRejects(src, Earliest(offending))
                              ELSE LabelRejects(src, Earliest(offending)))

\* C18 as amended: preprocess returns the error of the first pass that
\* rejects a line: the Alias Pass's error for the earliest line it rejects
\* whatever the other lines hold, a Label Pass error only when no earlier
\* pass rejects a line, then for the earliest line the Label Pass rejects;
\* a failed run returns no line list and a run succeeds only when no pass
\* rejects a line.
C18_FirstPassThenLine ==
    pc = "done" =>
        LET src == clean(unprocessed) IN
        /\ result.kind # "Ok" => lines = <<>>
        /\ AliasRejected(src) # {} =>
              result = Err(AliasRejects(src, Earliest(AliasRejected(src))))
        /\ (result.kind = "Err" /\ result.err \in LabelErrors) =>
              /\ AliasRejected(src) = {}
              /\ LabelRejected(prev_lines) # {}
              /\ result = Err(LabelRejects(prev_lines, Earliest(LabelRejected(prev_lines))))
        /\ result.kind = "Ok" => LabelRejected(prev_lines) = {}

\* C18 happens: a reserved-word label on line 1 and a two-token alias
\* declaration on line 3 report the alias error
C18_Witness ==
    /\ pc = "done"
    /\ unprocessed = << <<"L", "D", ":">>, <<"J", "P", " ", "s", "t", "a", "r", "t">>, <<"a", "l", "i", "a", "s", " ", "x">> >>
    /\ result = Err("TooFewAliasArgs")
    /\ lines = <<>>

---------------------------------------------------------------------------
(* Further properties of the encoder, checked under SpecAsm *)

\* C19: LD, SE, SNE, ADD and RND with a register and a number succeed for
\* every number up to 255 and return InvalidArg for every number from 256.
C19_ByteRange ==
    (Assembled /\ Kinds = <<"Register", "Numeric">>
        /\ (Spelled(<<"L", "D">>) \/ Spelled(<<"S", "E">>) \/ Spelled(<<"S", "N", "E">>) \/ Spelled(<<"A", "D", "D">>)
               \/ Spelled(<<"R", "N", "D">>))) =>
        /\ V(2) <= 255 => opcode.kind = "Ok"
        /\ V(2) >= 256 => opcode = Err("InvalidArg")

\* C19 happens: RND with 256 was refused
C19_Witness ==
    /\ Spelled(<<"R", "N", "D">>)
    /\ Kinds = <<"Register", "Numeric">>
    /\ V(2) = 256
    /\ opcode = Err("InvalidArg")

\* The token with a trailing comma taken away, or added when it has none
ToggleComma(token) ==
    IF token # <<>> /\ token[Len(token)] = ","
    THEN SubSeq(token, 1, Len(token) - 1)
    ELSE Append(token, ",")

\* The line of these tokens with the trailing comma of the k-th toggled
WithCommaToggled(tokens, k) ==
    join([i \in 1..Len(tokens) |->
            IF i = k THEN ToggleComma(tokens[i]) ELSE tokens[i]], <<" ">>)

---------------------------------------------------------------------------
(* Properties of the operand parser, checked under SpecAsm *)

\* The characters of the hexadecimal digits, in either case
HexChars == {LowerDigits[k] : k \in 1..16} \cup {UpperDigits[k] : k \in 1..16}

\* The value of hexadecimal digit c
HexValue(c) == CHOOSE d \in 0..15 : c \in {LowerDigits[d + 1], UpperDigits[d + 1]}

\* Token t begins with V or v
BeginsWithV(t) == Len(t) >= 1 /\ t[1] \in {"V", "v"}

\* Token t is V or v followed by exactly one hexadecimal digit
IsRegisterToken(t) == Len(t) = 2 /\ t[1] \in {"V", "v"} /\ t[2] \in HexChars

\* The line is one of the single-register instructions with operand token t
SingleRegisterLine ==
    /\ Len(operands) = 1
    /\ BeginsWithV(operands[1].t)
    /\ mnemonic \in {<<"S", "K", "P">>, <<"S", "K", "N", "P">>, <<"S", "H", "R">>, <<"S", "H", "L">>}

\* The opcode of the single-register instruction for register d
SingleRegisterOpcode(d) ==
    IF mnemonic = <<"S", "K", "P">> THEN \hE09E + d * 256
    ELSE IF mnemonic = <<"S", "K", "N", "P">> THEN \hE0A1 + d * 256
    ELSE IF mnemonic = <<"S", "H", "R">> THEN \h8006 + d * 256
    ELSE \h800E + d * 256

\* C21: a token V or v followed by exactly one hexadecimal digit (either
\* case) is parsed to the register of that digit's value, every other token
\* that begins with V or v fails, and so no register exceeds 15: the
\* single-register instructions carry exactly that digit in their x nibble
\* and return an error for every other such token.
C21_RegisterTokens ==
    (Assembled /\ SingleRegisterLine) =>
        LET t == operands[1].t IN
        IF IsRegisterToken(t)
        THEN opcode = Ok(SingleRegisterOpcode(HexValue(t[2])))
             /\ (opcode.val \div 256) % 16 = HexValue(t[2])
        ELSE opcode.kind = "Err"

\* C21 happens: SKP vf was encoded with register 15
C21_Witness ==
    /\ Assembled
    /\ SingleRegisterLine
    /\ inst = <<"S", "K", "P", " ", "v", "f">>
    /\ opcode = Ok(\hEF9E)

---------------------------------------------------------------------------
(* Properties of the Offset Pass, checked under Spec *)

\* No line of ls contains the marker character
NoMarker(ls) == \A i \in 1..Len(ls) : \A k \in 1..Len(ls[i]) : ls[i][k] # "#"

\* Some line of ls contains the marker character
HasMarker(ls) == ~NoMarker(ls)

\* C22: the output of a successful Offset Pass contains no '#', and the
\* Offset Pass applied to that output returns exactly the same line list.
C22_OffsetIdempotent ==
    OffsetsDone =>
        /\ NoMarker(lines)
        /\ evaluate_memory_offsets(lines).kind = "Ok"
        /\ evaluate_memory_offsets(lines).lines = lines

\* C22 happens: the pass resolved the two markers of LD #0 #1
C22_Witness ==
    /\ OffsetsDone
    /\ prev_lines = <<<<"L", "D", " ", "#", "0", " ", "#", "1">>>>
    /\ HasMarker(prev_lines)
    /\ lines = <<<<"L", "D", " ", "2", "3">>>>

---------------------------------------------------------------------------
(* Properties of the Sprite Pass on data lines that are no byte *)

\* The closed block declared at s has 15 or fewer data lines, one of them
\* no numeric literal in 0..255
HasNonByteLine(ls, s) ==
    /\ IsOnlyDeclaration(ls, s)
    /\ Closers(ls, s) # {}
    /\ Closer(ls, s) - s - 1 <= 15
    /\ \E j \in (s + 1)..(Closer(ls, s) - 1) : ByteOf(ls[j]) < 0

\* C23: in a closed sprite block of legal size, a data line that is not a
\* numeric literal in 0..255 (a register, a named operand, a value above
\* 255, a non-number) makes the Sprite Pass return InvalidSpriteByte; the
\* pass never aborts on such a line.
C23_NonByteIsInvalidSpriteByte ==
    \A s \in 1..Len(prev_lines) :
        ((SpritesDone \/ SpritesFailed) /\ HasNonByteLine(prev_lines, s)) =>
            (pc = "done" /\ result = Err("InvalidSpriteByte"))

---------------------------------------------------------------------------
(* Properties of the recognition of declarations *)

\* The first whitespace-separated token of line l is exactly word
FirstTokenIs(l, word) ==
    LET tokens == split_whitespace(l) IN tokens # <<>> /\ tokens[1] = word

\* Some line of ls has word as its first token and a token count other than n
HasMisshapenDeclaration(ls, word, n) ==
    \E i \in 1..Len(ls) :
        FirstTokenIs(ls[i], word) /\ Len(split_whitespace(ls[i])) # n

\* C24: only a line whose first token is exactly `alias` (`sprite`) is an
\* alias (sprite) declaration: an arity error of the Alias Pass (Sprite
\* Pass) comes from such a line with other than 3 (2) tokens, and a line
\* whose first token only begins with those letters, such as `aliases:` or
\* `sprites:`, raises none and is left to the later passes.
C24_ExactKeyword ==
    /\ (AliasesFailed /\ result.err \in {"TooFewAliasArgs", "TooManyAliasArgs"}) =>
          HasMisshapenDeclaration(prev_lines, <<"a", "l", "i", "a", "s">>, 3)
    /\ (SpritesFailed /\ result.err \in {"TooFewSpriteArgs", "TooManySpriteArgs"}) =>
          HasMisshapenDeclaration(prev_lines, <<"s", "p", "r", "i", "t", "e">>, 2)
    /\ AliasesDone =>
          \A i \in 1..Len(prev_lines) :
              (starts_with(prev_lines[i], <<"a", "l", "i", "a", "s">>) /\ ~FirstTokenIs(prev_lines[i], <<"a", "l", "i", "a", "s">>)) =>
                  \E j \in 1..Len(lines) : lines[j] = prev_lines[i]

---------------------------------------------------------------------------
(* Properties of the Offset Pass on the text around a marker *)

\* The positions of '#' in line l
Markers(l) == {k \in 1..Len(l) : l[k] = "#"}

\* The position after the marker at k: the first whitespace after k, or
\* the position past the end of the line
MarkerStop(l, k) ==
    CHOOSE e \in (k + 1)..(Len(l) + 1) :
        /\ e = Len(l) + 1 \/ IsWhitespace(l[e])
        /\ \A j \in (k + 1)..(e - 1) : ~IsWhitespace(l[j])

\* new is old with its only marker, at k, replaced by some number: the text
\* before '#' and the text from the end of the marker on are those of old
OnlyMarkerReplaced(old, new, k) ==
    LET before == SubSeq(old, 1, k - 1)
        after == SubSeq(old, MarkerStop(old, k), Len(old))
    IN /\ Len(new) > Len(before) + Len(after)
       /\ starts_with(new, before)
       /\ ends_with(new, after)
       /\ \A j \in (Len(before) + 1)..(Len(new) - Len(after)) :
              \E d \in 1..10 : new[j] = LowerDigits[d]

\* C25: when the Offset Pass replaces a marker #N the rest of the line is
\* preserved: the text before '#' and the text after the marker's digits,
\* the separating whitespace included, are unchanged, lines without a
\* marker are unchanged, and every line keeps its number of
\* whitespace-separated tokens.
C25_RestPreserved ==
    OffsetsDone =>
        /\ Len(lines) = Len(prev_lines)
        /\ \A i \in 1..Len(prev_lines) :
              LET old == prev_lines[i]
                  new == lines[i]
              IN
              /\ Markers(old) = {} => new = old
              /\ Len(split_whitespace(new)) = Len(split_whitespace(old))
              /\ \A k \in Markers(old) :
                    Markers(old) = {k} => OnlyMarkerReplaced(old, new, k)

---------------------------------------------------------------------------
(* Termination of the Offset Pass *)

\* The Offset Pass failed: InvalidOffset is the error of that pass alone
OffsetsFailed == pc = "done" /\ result = Err("InvalidOffset")

\* The number of '#' on line l, and the largest such number in ls
MarkerCount(l) == Cardinality(Markers(l))
MostMarkers(ls) ==
    IF ls = <<>> THEN 0
    ELSE CHOOSE m \in {MarkerCount(ls[i]) : i \in 1..Len(ls)} :
            \A i \in 1..Len(ls) : MarkerCount(ls[i]) <= m

\* after is before with the first '#' of every line that has one replaced by
\* text without '#': such a line has one marker less and the others are
\* untouched, so the total number of '#' is strictly smaller
OneMarkerLessEach(before, after) ==
    /\ Len(after) = Len(before)
    /\ HasMarker(before)
    /\ \A i \in 1..Len(before) :
          IF Markers(before[i]) = {}
          THEN after[i] = before[i]
          ELSE MarkerCount(after[i]) = MarkerCount(before[i]) - 1

\* C26: the Offset Pass terminates: every scan but the last replaces the
\* first '#' of every line that has one by text without '#', the last scan
\* finds no marker or returns InvalidOffset, and the pass makes at most
\* (the largest number of '#' on one line) + 1 scans.
C26_OffsetTermination ==
    (OffsetsDone \/ OffsetsFailed) =>
        LET scans == offsets_scans(prev_lines) IN
        /\ Len(scans) >= 1
        /\ Len(scans) <= MostMarkers(prev_lines) + 1
        /\ scans[1] = prev_lines
        /\ \A n \in 1..(Len(scans) - 1) : OneMarkerLessEach(scans[n], scans[n + 1])
        /\ OffsetsDone => (lines = scans[Len(scans)] /\ NoMarker(lines))
        /\ OffsetsFailed => HasMarker(scans[Len(scans)])

\* C26 happens: the three markers of one line were resolved in four scans
C26_Witness ==
    /\ OffsetsDone
    /\ prev_lines = << <<"#", "1", " ", "#", "2", " ", "#", "3">> >>
    /\ Len(offsets_scans(prev_lines)) = 4
    /\ lines = << <<"3", "4", "5">> >>

=============================================================================
